---- MODULE Spec2Model ----
(***************************************************************************)
(* A model of the soweego record-linkage pipeline: the similarity feature  *)
(* functions (soweego/linker/feature_extraction.py) and the preprocessing  *)
(* and blocking steps (soweego/linker/workflow.py).                        *)
(*                                                                         *)
(* Python values are tagged records [t, v]:                                *)
(*   None            [t |-> "none", v |-> <<>>]                            *)
(*   float('nan')    [t |-> "nan",  v |-> <<>>]                            *)
(*   str             [t |-> "str",  v |-> sequence of characters]          *)
(*   list            [t |-> "list", v |-> sequence of values]              *)
(*   tuple           [t |-> "tuple", v |-> sequence of values]             *)
(*   pandas.Period   [t |-> "period", v |-> <<year, month, day>>]          *)
(*   tuple           [t |-> "tuple",  v |-> <<first, second>>]             *)
(*   int, float      [t |-> "int",    v |-> <<n>>], [t |-> "float", ...]   *)
(* A score (a float in the code) is the exact real number <<n, d, k>>,     *)
(* standing for (n / d) ^ (1 / k) with k in {1, 2}; the float NaN is       *)
(* <<0, 0, 1>>.  k = 2 is needed for the cosine, a square root.            *)
(***************************************************************************)
EXTENDS Integers, Sequences, FiniteSets, TLC

VARIABLES
    feature,          \* the comparator object: its class and its attributes
    source_column,    \* left column handed to _compute_vectorized
    target_column,    \* right column handed to _compute_vectorized
    compared,         \* what _compute_vectorized returned or raised
    pc,               \* position of the call: "start" or "done"
    wikidata_df,      \* train_test_block: the Wikidata table, a sequence of rows
    target_df,        \* train_test_block: the target table, a sequence of rows
    candidate_pairs,  \* the MultiIndex the latest train_test_block returned
    first_pairs,      \* the MultiIndex the first train_test_block returned
    runs,             \* how many times train_test_block has run
    called,           \* preprocessing: the function that was called
    goal,             \* _preprocess_target: its goal argument
    target_reader,    \* _preprocess_target: the rows its reader yields
    target_frame,     \* the DataFrame being preprocessed
    preprocessed,     \* what the called function returned or raised
    step,             \* the next step of the called function
    files,            \* workflow: what each path of the I/O directory holds
    written_by,       \* workflow: the invocation that wrote each path
    wf_call,          \* workflow: the latest call and its arguments
    wf_result,        \* workflow: what the latest call returned or raised
    accessed,         \* workflow: the paths the latest call tested, read or wrote
    consumed,         \* workflow: the readers the latest call iterated
    first_tables,     \* workflow: per cache key, what the first preprocess returned
    calls,            \* workflow: how many calls were made
    lk_call,          \* linker: the function called and its arguments
    lk_result,        \* linker: what the call returned or raised
    nn_pc,            \* _BaseNN._fit: "idle", "fitting" or "ended"
    epochs,           \* _fit: its epochs argument
    epoch,            \* _fit: the epochs that have ended
    val_loss,         \* _fit: the validation loss of the latest epoch
    early_stopping,   \* the EarlyStopping callback: its best and its wait
    model_checkpoint, \* the ModelCheckpoint callback: its best
    checkpoint,       \* what the checkpoint file holds
    file_ops,         \* what the latest step did to the checkpoint file
    lowest,           \* the lowest validation loss of the epochs so far
    unimproved,       \* the latest epochs in a row that did not lower it
    db_fn,            \* data gathering: the function that was called
    db_pc,            \* data gathering: where the call stands
    db_rows,          \* data gathering: the rows the query matches
    fetched,          \* data gathering: the rows read from the query so far
    delivered,        \* data gathering: the rows handed to the caller so far
    session_log,      \* data gathering: what was done with the session, in order
    db_exc            \* data gathering: the exception that reached the caller

cmpvars == <<feature, source_column, target_column, compared, pc>>

blockvars == <<wikidata_df, target_df, candidate_pairs, first_pairs, runs>>

prepvars == <<called, goal, target_reader, target_frame, preprocessed, step>>

wfvars == <<files, written_by, wf_call, wf_result, accessed, consumed, first_tables, calls>>

linkvars == <<lk_call, lk_result>>

nnvars == <<nn_pc, epochs, epoch, val_loss, early_stopping, model_checkpoint, checkpoint,
            file_ops, lowest, unimproved>>

dbvars == <<db_fn, db_pc, db_rows, fetched, delivered, session_log, db_exc>>

vars == <<cmpvars, blockvars, prepvars, wfvars, linkvars, nnvars, dbvars>>

\* what a call of one component leaves alone
besides_compare == <<blockvars, prepvars, wfvars, linkvars, nnvars, dbvars>>

besides_block == <<cmpvars, prepvars, wfvars, linkvars, nnvars, dbvars>>

besides_preprocess == <<cmpvars, blockvars, wfvars, linkvars, nnvars, dbvars>>

besides_workflow == <<cmpvars, blockvars, prepvars, linkvars, nnvars, dbvars>>

besides_linker == <<cmpvars, blockvars, prepvars, wfvars, nnvars, dbvars>>

besides_fit == <<cmpvars, blockvars, prepvars, wfvars, linkvars, dbvars>>

besides_gathering == <<cmpvars, blockvars, prepvars, wfvars, linkvars, nnvars>>

-----------------------------------------------------------------------------
(* Bounds *)

\* longest list held by one cell
MaxListLen == 2

\* most candidate pairs in one call of a comparator
MaxPairs == 2

\* most rows in a table handed to the blocker
MaxRows == 2

\* most calls of the workflow functions in one run
MaxCalls == 2

-----------------------------------------------------------------------------
(* The state of a component that is not being called *)

IdleCompare ==
    /\ pc = "idle"
    /\ feature = [class |-> "none"]
    /\ source_column = <<>>
    /\ target_column = <<>>
    /\ compared = [exc |-> "not called", series |-> <<>>]

IdleBlock ==
    /\ wikidata_df = <<>>
    /\ target_df = <<>>
    /\ candidate_pairs = <<>>
    /\ first_pairs = <<>>
    /\ runs = -1

IdlePreprocess ==
    /\ called = "none"
    /\ goal = "none"
    /\ target_reader = <<>>
    /\ target_frame = <<>>
    /\ preprocessed = [exc |-> "not called", df |-> <<>>]
    /\ step = "idle"

IdleWorkflow ==
    /\ files = <<>>
    /\ written_by = <<>>
    /\ wf_call = [fn |-> "none"]
    /\ wf_result = [exc |-> "not called"]
    /\ accessed = {}
    /\ consumed = {}
    /\ first_tables = <<>>
    /\ calls = -1

IdleLinker ==
    /\ lk_call = [fn |-> "none"]
    /\ lk_result = [exc |-> "not called"]

IdleFit ==
    /\ nn_pc = "none"
    /\ epochs = 0
    /\ epoch = 0
    /\ val_loss = 0
    /\ early_stopping = <<>>
    /\ model_checkpoint = <<>>
    /\ checkpoint = <<>>
    /\ file_ops = {}
    /\ lowest = 0
    /\ unimproved = 0

IdleGathering ==
    /\ db_fn = "none"
    /\ db_pc = "idle"
    /\ db_rows = 0
    /\ fetched = 0
    /\ delivered = 0
    /\ session_log = <<>>
    /\ db_exc = "none"

-----------------------------------------------------------------------------
(* Python values *)

None == [t |-> "none", v |-> <<>>]

NaNCell == [t |-> "nan", v |-> <<>>]

Str(s) == [t |-> "str", v |-> s]

List(l) == [t |-> "list", v |-> l]

\* a Period of day precision
Period(y, m, d) == [t |-> "period", v |-> <<y, m, d>>]

Tuple(a, b) == [t |-> "tuple", v |-> <<a, b>>]

\* a Python int
PyInt(n) == [t |-> "int", v |-> <<n>>]

\* a float that is not NaN
PyFloat(n) == [t |-> "float", v |-> <<n>>]

SeqsUpTo(S, n) == UNION {[1..k -> S] : k \in 0..n}

Range(s) == {s[i] : i \in DOMAIN s}

\* pandas.isna of a scalar
IsNa(x) == x.t \in {"none", "nan"}

\* bool(x) of Python: None, '' and [] are falsy, NaN is truthy
Truthy(x) ==
    CASE x.t = "none" -> FALSE
      [] x.t \in {"str", "list"} -> x.v # <<>>
      [] OTHER -> TRUE

-----------------------------------------------------------------------------
(* Scores: exact non-negative reals *)

NaN == <<0, 0, 1>>

RECURSIVE GCD(_, _)
GCD(a, b) == IF b = 0 THEN a ELSE GCD(b, a % b)

IsSquare(n) == \E r \in 0..n : r * r = n

Root(n) == CHOOSE r \in 0..n : r * r = n

\* n / d as a score
Rat(n, d) ==
    IF d = 0 THEN NaN
    ELSE LET g == GCD(n, d) IN <<n \div g, d \div g, 1>>

\* sqrt(n / d) as a score
SqrtRat(n, d) ==
    IF d = 0 THEN NaN
    ELSE LET g == GCD(n, d)
             p == n \div g
             q == d \div g
         IN IF IsSquare(p) /\ IsSquare(q) THEN <<Root(p), Root(q), 1>>
            ELSE <<p, q, 2>>

IsNaN(x) == x[2] = 0

\* x + y for rational scores; NaN is absorbing
Plus(x, y) ==
    IF IsNaN(x) \/ IsNaN(y) THEN NaN
    ELSE Rat(x[1] * y[2] + y[1] * x[2], x[2] * y[2])

\* x >= y; every comparison with NaN is False
Geq(x, y) ==
    IF IsNaN(x) \/ IsNaN(y) THEN FALSE
    ELSE LET xn == IF x[3] = 1 THEN x[1] * x[1] ELSE x[1]
             xd == IF x[3] = 1 THEN x[2] * x[2] ELSE x[2]
             yn == IF y[3] = 1 THEN y[1] * y[1] ELSE y[1]
             yd == IF y[3] = 1 THEN y[2] * y[2] ELSE y[2]
         IN xn * yd >= yn * xd

RECURSIVE SumScores(_)
SumScores(s) == IF s = <<>> THEN Rat(0, 1) ELSE Plus(Head(s), SumScores(Tail(s)))

\* numpy.average of a list of floats; nan for the empty list
np_average(scores) ==
    LET total == SumScores(scores)
    IN IF scores = <<>> \/ IsNaN(total) THEN NaN
       ELSE Rat(total[1], total[2] * Len(scores))

\* recordlinkage.utils.fillna
fillna(series, missing_value) ==
    [i \in DOMAIN series |-> IF IsNaN(series[i]) THEN missing_value ELSE series[i]]

-----------------------------------------------------------------------------
(* feature_extraction._pair_has_any_null *)

\* pandas.isna(x), followed by .all() when x is a list
IsNaAll(x) ==
    IF x.t = "list" THEN \A i \in DOMAIN x.v : IsNa(x.v[i]) ELSE IsNa(x)

_pair_has_any_null(pair) ==
    IF ~(Truthy(pair[1]) /\ Truthy(pair[2])) THEN TRUE
    ELSE IsNaAll(pair[1]) \/ IsNaAll(pair[2])

-----------------------------------------------------------------------------
(* feature_extraction.StringList *)

\* jellyfish.levenshtein_distance of two strings (sequences of characters)
RECURSIVE levenshtein_distance(_, _)
levenshtein_distance(a, b) ==
    IF a = <<>> THEN Len(b)
    ELSE IF b = <<>> THEN Len(a)
    ELSE IF Head(a) = Head(b) THEN levenshtein_distance(Tail(a), Tail(b))
    ELSE LET del == levenshtein_distance(Tail(a), b)
             ins == levenshtein_distance(a, Tail(b))
             sub == levenshtein_distance(Tail(a), Tail(b))
             m1 == IF del < ins THEN del ELSE ins
         IN 1 + (IF m1 < sub THEN m1 ELSE sub)

Max(a, b) == IF a >= b THEN a ELSE b

\* the "paranoid checks" left out: a bare str is iterated character by character
WrapStr_unwrapped(values) ==
    IF values.t = "str" THEN [i \in DOMAIN values.v |-> Str(<<values.v[i]>>)]
    ELSE values.v

\* the "paranoid checks": a bare str becomes a one-element list
WrapStr(values) == IF values.t = "str" THEN <<values>> ELSE values.v

\* LevenshteinScore normalised by the length of the source alone
LevenshteinScore_by_source(self, source, target) ==
    IF source.t = "str" /\ target.t = "str"
    THEN LET d == levenshtein_distance(source.v, target.v)
         IN Rat(Max(Len(source.v) - d, 0), Len(source.v))
    ELSE self.missing_value

\* the body of the two nested loops: the score of one (source, target)
\* 1 - distance / max(len, len), a numpy division: 0 / 0 is nan;
\* a TypeError on a null element is caught and scored missing_value
LevenshteinScore(self, source, target) ==
    IF source.t = "str" /\ target.t = "str"
    THEN LET m == Max(Len(source.v), Len(target.v))
         IN Rat(m - levenshtein_distance(source.v, target.v), m)
    ELSE self.missing_value

\* the (source, target) of the two nested loops, in the order of the loops:
\* sources outside, targets inside
CrossProduct(sources, targets) ==
    LET n == Len(targets)
    IN [k \in 1..(Len(sources) * n) |->
           <<sources[((k - 1) \div n) + 1], targets[((k - 1) % n) + 1]>>]

_levenshtein_apply(self, pair) ==
    IF _pair_has_any_null(pair) THEN NaN
    ELSE LET source_values == WrapStr(pair[1])
             target_values == WrapStr(pair[2])
             loop == CrossProduct(source_values, target_values)
             scores == [k \in DOMAIN loop |->
                           LevenshteinScore(self, loop[k][1], loop[k][2])]
         IN np_average(scores)

\* paired.apply(_levenshtein_apply): one score per zipped pair
levenshtein_similarity(self, source, target) ==
    [i \in 1..(IF Len(source) <= Len(target) THEN Len(source) ELSE Len(target)) |->
        _levenshtein_apply(self, <<source[i], target[i]>>)]

\* the characters the tokenizers drop, and the lower case of the others
StopCharacters == {" ", "!", "/", ".", ":"}

LowerCase(c) == IF c = "A" THEN "a" ELSE IF c = "B" THEN "b" ELSE c

RECURSIVE TokensFrom(_, _)
TokensFrom(chars, word) ==
    IF chars = <<>> THEN (IF word = <<>> THEN <<>> ELSE <<word>>)
    ELSE IF Head(chars) \in StopCharacters
         THEN (IF word = <<>> THEN <<>> ELSE <<word>>) \o TokensFrom(Tail(chars), <<>>)
         ELSE TokensFrom(Tail(chars), Append(word, LowerCase(Head(chars))))

\* text_utils.tokenize and url_utils.tokenize: the normalized tokens, in order
tokenize(text) == TokensFrom(text.v, <<>>)

\* Series.fillna(''): None and NaN become the empty string
FillEmpty(x) == IF IsNa(x) THEN Str(<<>>) ELSE x

\* str.split(): the maximal runs of non-blank characters
RECURSIVE StrSplitFrom(_, _)
StrSplitFrom(chars, word) ==
    IF chars = <<>> THEN (IF word = <<>> THEN <<>> ELSE <<word>>)
    ELSE IF Head(chars) = " "
         THEN (IF word = <<>> THEN <<>> ELSE <<word>>) \o StrSplitFrom(Tail(chars), <<>>)
         ELSE StrSplitFrom(Tail(chars), Append(word, Head(chars)))

str_split(text) == StrSplitFrom(text.v, <<>>)

\* how often token occurs in the tokens of a document
Count(token, tokens) == Cardinality({i \in DOMAIN tokens : tokens[i] = token})

RECURSIVE SumOver(_, _)
SumOver(S, f) ==
    IF S = {} THEN 0
    ELSE LET x == CHOOSE y \in S : TRUE IN f[x] + SumOver(S \ {x}, f)

\* _metric_sparse_cosine on the rows u and v of the count matrix
_metric_sparse_cosine(vocabulary, u, v) ==
    LET aa == SumOver(vocabulary, [w \in vocabulary |-> Count(w, u) * Count(w, u)])
        bb == SumOver(vocabulary, [w \in vocabulary |-> Count(w, v) * Count(w, v)])
        ab == SumOver(vocabulary, [w \in vocabulary |-> Count(w, u) * Count(w, v)])
    IN SqrtRat(ab * ab, aa * bb)

\* what a call returns ...
Returns(series) == [exc |-> "none", series |-> series]

\* ... or raises
Raises(exc) == [exc |-> exc, series |-> <<>>]

Analyzers == {"None", "soweego", "word", "char", "char_wb"}

cosine_similarity(self, source, target) ==
    IF Len(source) # Len(target) THEN Raises("ValueError")
    ELSE IF Len(source) = 0 THEN Returns(<<NaN>>)
    ELSE IF self.analyzer \notin Analyzers THEN Raises("ValueError")
    ELSE LET data == [i \in 1..(2 * Len(source)) |->
                         FillEmpty(IF i <= Len(source) THEN source[i]
                                   ELSE target[i - Len(source)])]
             docs == [i \in DOMAIN data |->
                         IF self.analyzer = "soweego" THEN tokenize(data[i])
                         ELSE str_split(data[i])]
             vocabulary == UNION {Range(docs[i]) : i \in DOMAIN docs}
         IN IF vocabulary = {} THEN Returns(<<NaN>>)
            ELSE Returns([i \in 1..Len(source) |->
                     _metric_sparse_cosine(vocabulary, docs[i], docs[Len(source) + i])])

NoThreshold == <<0, 0, 1>>

\* a comparison that leaves out the scores equal to the threshold
Binarize_strict(series, threshold) ==
    [i \in DOMAIN series |->
        IF Geq(series[i], threshold) /\ series[i] # threshold THEN Rat(1, 1)
        ELSE Rat(0, 1)]

\* (compared_filled >= self.threshold).astype(np.float64)
Binarize(series, threshold) ==
    [i \in DOMAIN series |-> IF Geq(series[i], threshold) THEN Rat(1, 1) ELSE Rat(0, 1)]

StringList_compute_vectorized(self, source, target) ==
    IF self.algorithm \notin {"levenshtein", "cosine"} THEN Raises("ValueError")
    ELSE LET got == IF self.algorithm = "levenshtein"
                    THEN Returns(levenshtein_similarity(self, source, target))
                    ELSE cosine_similarity(self, source, target)
             compared_filled == fillna(got.series, self.missing_value)
         IN IF got.exc # "none" THEN got
            ELSE IF self.threshold = NoThreshold THEN Returns(compared_filled)
            ELSE Returns(Binarize(compared_filled, self.threshold))

-----------------------------------------------------------------------------
(* feature_extraction.UrlList *)

\* "for x in cell": the elements of a list, the characters of a str
Iterate(cell) ==
    IF cell.t = "str" THEN [i \in DOMAIN cell.v |-> Str(<<cell.v[i]>>)] ELSE cell.v

\* ExactScore with the two outcomes of the comparison exchanged
ExactScore_swapped(self, source, target) ==
    IF IsNa(source) \/ IsNa(target) THEN self.missing_value
    ELSE IF source = target THEN self.disagree_value
    ELSE self.agree_value

ExactScore(self, source, target) ==
    IF IsNa(source) \/ IsNa(target) THEN self.missing_value
    ELSE IF source = target THEN self.agree_value
    ELSE self.disagree_value

exact_apply(self, pair) ==
    IF _pair_has_any_null(pair) THEN NaN
    ELSE LET loop == CrossProduct(Iterate(pair[1]), Iterate(pair[2]))
             scores == [k \in DOMAIN loop |-> ExactScore(self, loop[k][1], loop[k][2])]
         IN np_average(scores)

UrlList_compute_vectorized(self, source, target) ==
    Returns(fillna([i \in 1..(IF Len(source) <= Len(target) THEN Len(source)
                              ELSE Len(target)) |->
                       exact_apply(self, <<source[i], target[i]>>)],
                   self.missing_value))

-----------------------------------------------------------------------------
(* feature_extraction.DateCompare *)

\* the similarity that check_equality accumulates; check_equality returns
\* nothing and _compute_vectorized never calls it
check_equality(s_item, t_item) ==
    IF s_item.v[1] # t_item.v[1] THEN 0
    ELSE IF s_item.v[2] # t_item.v[2] THEN 1
    ELSE IF s_item.v[3] # t_item.v[3] THEN 2
    ELSE 3

\* c = pd.Series(); return c
DateCompare_compute_vectorized(self, source, target) == Returns(<<>>)

-----------------------------------------------------------------------------
(* workflow.train_test_block: recordlinkage's Index().block(on_column) *)

\* a table is a sequence of rows; a row is [id |-> index value, tid |-> cell]

\* dropna left out: every row is kept, and merge matches null keys
dropna_skipped(df) == DOMAIN df

\* the positions of the rows whose blocking key is not null:
\* data.dropna(axis=0, how='any', subset=blocking_keys)
dropna(df) == {i \in DOMAIN df : ~IsNa(df[i].tid)}

\* the ascending sequence of a set of positions
RECURSIVE Ascending(_)
Ascending(S) ==
    IF S = {} THEN <<>>
    ELSE LET m == CHOOSE x \in S : \A y \in S : x <= y
         IN <<m>> \o Ascending(S \ {m})

RECURSIVE Flatten(_)
Flatten(ss) == IF ss = <<>> THEN <<>> ELSE Head(ss) \o Flatten(Tail(ss))

\* a merge that keeps, for a left row, only the first right row of its key
merge_first_match(df_a, df_b, left, right) ==
    LET l == Ascending(left)
        r == Ascending(right)
        matches(x) == SelectSeq(r, LAMBDA y : df_a[x].tid = df_b[y].tid)
    IN Flatten([k \in DOMAIN l |->
                   IF matches(l[k]) = <<>> THEN <<>>
                   ELSE <<<<l[k], Head(matches(l[k]))>>>>])

\* data_left.merge(data_right, how='inner', on=blocking_keys): the pairs of
\* positions (index_x, index_y) with equal keys, in the order of the left rows
merge_inner(df_a, df_b, left, right) ==
    LET l == Ascending(left)
        r == Ascending(right)
        matches(x) == SelectSeq(r, LAMBDA y : df_a[x].tid = df_b[y].tid)
    IN Flatten([k \in DOMAIN l |->
                   [j \in DOMAIN matches(l[k]) |-> <<l[k], matches(l[k])[j]>>]])

\* pandas.MultiIndex(levels=[df_a.index.values, df_b.index.values], codes=...)
MultiIndex(df_a, df_b, codes) ==
    [k \in DOMAIN codes |-> <<df_a[codes[k][1]].id, df_b[codes[k][2]].id>>]

train_test_block(wikidata, target) ==
    MultiIndex(wikidata, target,
               merge_inner(wikidata, target, dropna(wikidata), dropna(target)))

\* the rows of df in the order perm
Permuted(df, perm) == [i \in DOMAIN df |-> df[perm[i]]]

QIDs == {"Q1", "Q2"}

TIDs == {"t1", "t2"}

\* a blocking key: missing, or a target identifier
Keys == {NaNCell} \cup {Str(<<t>>) : t \in TIDs}

WikidataTables == SeqsUpTo([id : QIDs, tid : Keys], MaxRows)

TargetTables == SeqsUpTo([id : TIDs, tid : {NaNCell, Str(<<"t1">>)}], MaxRows)

InitBlock ==
    /\ IdleGathering
    /\ IdleFit
    /\ IdleCompare
    /\ IdlePreprocess
    /\ IdleWorkflow
    /\ IdleLinker
    /\ wikidata_df \in WikidataTables
    /\ target_df \in TargetTables
    /\ candidate_pairs = <<>>
    /\ first_pairs = <<>>
    /\ runs = 0

\* the first call
TrainTestBlock ==
    /\ runs = 0
    /\ candidate_pairs' = train_test_block(wikidata_df, target_df)
    /\ first_pairs' = candidate_pairs'
    /\ runs' = 1
    /\ UNCHANGED <<wikidata_df, target_df>>
    /\ UNCHANGED besides_block

\* a second call, on the same tables with their rows in any order
TrainTestBlockAgain ==
    /\ runs = 1
    /\ \E p \in Permutations(DOMAIN wikidata_df), q \in Permutations(DOMAIN target_df) :
           candidate_pairs' = train_test_block(Permuted(wikidata_df, p),
                                               Permuted(target_df, q))
    /\ runs' = 2
    /\ UNCHANGED <<wikidata_df, target_df, first_pairs>>
    /\ UNCHANGED besides_block

NextBlock == TrainTestBlock \/ TrainTestBlockAgain

-----------------------------------------------------------------------------
(* The comparators' inputs *)

\* the strings used as names and URLs
Strings == {<<>>, <<"a">>, <<"a", "b">>}

\* what a list cell may hold
Elements == {None} \cup {Str(s) : s \in Strings}

\* a multi-valued field of one record: missing, a bare string, or a list
Cells == {None, NaNCell} \cup {Str(s) : s \in Strings}
             \cup {List(l) : l \in SeqsUpTo(Elements, MaxListLen)}

\* the cells of the columns of two pairs and more
ShortCells == {None, Str(<<"a", "b">>), List(<<Str(<<"a">>)>>),
               List(<<Str(<<"a", "b">>)>>)}

\* a description: missing or one text
TextCells == {None, NaNCell, Str(<<>>), Str(<<"a">>), Str(<<"a", " ", "b">>)}

ShortTextCells == {None, Str(<<>>), Str(<<"a", " ", "b">>)}

\* a date: missing or one Period
DateCells == {None, Period(1990, 1, 1), Period(1990, 1, 2), Period(1990, 2, 1),
              Period(1991, 1, 1)}

ShortDateCells == {None, Period(1990, 1, 1), Period(1990, 2, 1)}

\* two columns of equal length: of any cells up to one pair, of the short
\* cells beyond
ColumnPairs(All, Short) ==
    UNION {[1..n -> All] \X [1..n -> All] : n \in 0..1}
      \cup UNION {[1..n -> Short] \X [1..n -> Short] : n \in 2..MaxPairs}

MissingValues == {Rat(0, 1), Rat(1, 2)}

Thresholds == {NoThreshold, Rat(1, 2)}

\* StringList(left_on, right_on, algorithm, threshold, missing_value, analyzer)
StringLists ==
    [class : {"StringList"}, algorithm : {"levenshtein", "cosine"},
     threshold : Thresholds, missing_value : MissingValues, analyzer : {"None"}]

\* a StringList with an algorithm or an analyzer that does not exist
MisconfiguredStringLists ==
    [class : {"StringList"}, algorithm : {"jaccard"},
     threshold : {NoThreshold}, missing_value : {Rat(0, 1)}, analyzer : {"None"}]
      \cup [class : {"StringList"}, algorithm : {"cosine"},
           threshold : {NoThreshold}, missing_value : {Rat(0, 1)}, analyzer : {"ngram"}]

\* UrlList(left_on, right_on, agree_value=1.0, disagree_value=0.0, missing_value)
UrlLists ==
    [class : {"UrlList"}, agree_value : {Rat(1, 1)}, disagree_value : {Rat(0, 1)},
     missing_value : MissingValues]

\* DateCompare(left_on, right_on, missing_value)
DateCompares == [class : {"DateCompare"}, missing_value : MissingValues]

NotCalled == Raises("not called")

InitCompare ==
    /\ IdleGathering
    /\ IdleFit
    /\ IdleBlock
    /\ IdlePreprocess
    /\ IdleWorkflow
    /\ IdleLinker
    /\ pc = "start"
    /\ compared = NotCalled
    /\ feature \in StringLists \cup MisconfiguredStringLists \cup UrlLists \cup DateCompares
    /\ \E columns \in
            IF feature.class = "DateCompare" THEN ColumnPairs(DateCells, ShortDateCells)
            ELSE IF feature.class = "StringList" /\ feature.algorithm = "cosine"
                 THEN ColumnPairs(TextCells, ShortTextCells)
                 ELSE ColumnPairs(Cells, ShortCells) :
          /\ source_column = columns[1]
          /\ target_column = columns[2]

StringListCompute ==
    /\ pc = "start"
    /\ feature.class = "StringList"
    /\ compared' = StringList_compute_vectorized(feature, source_column, target_column)
    /\ pc' = "done"
    /\ UNCHANGED <<feature, source_column, target_column>>
    /\ UNCHANGED besides_compare

UrlListCompute ==
    /\ pc = "start"
    /\ feature.class = "UrlList"
    /\ compared' = UrlList_compute_vectorized(feature, source_column, target_column)
    /\ pc' = "done"
    /\ UNCHANGED <<feature, source_column, target_column>>
    /\ UNCHANGED besides_compare

DateCompareCompute ==
    /\ pc = "start"
    /\ feature.class = "DateCompare"
    /\ compared' = DateCompare_compute_vectorized(feature, source_column, target_column)
    /\ pc' = "done"
    /\ UNCHANGED <<feature, source_column, target_column>>
    /\ UNCHANGED besides_compare

NextCompare == StringListCompute \/ UrlListCompute \/ DateCompareCompute

\* calls of the comparators
SpecCompare == InitCompare /\ [][NextCompare]_vars

\* calls of the blocker
SpecBlock == InitBlock /\ [][NextBlock]_vars

-----------------------------------------------------------------------------
(* Properties of the comparators, checked under SpecCompare *)

\* a compared field that is missing or empty: None, NaN, '', [], or a list
\* holding only nulls
FieldMissing(cell) ==
    \/ cell.t \in {"none", "nan"}
    \/ cell.t = "str" /\ cell.v = <<>>
    \/ cell.t = "list" /\ \A i \in DOMAIN cell.v : cell.v[i].t \in {"none", "nan"}

\* the comparator's _compute_vectorized, by class
Compare(self, source, target) ==
    CASE self.class = "StringList" -> StringList_compute_vectorized(self, source, target)
      [] self.class = "UrlList" -> UrlList_compute_vectorized(self, source, target)
      [] self.class = "DateCompare" -> DateCompare_compute_vectorized(self, source, target)

Misconfigured == feature \in MisconfiguredStringLists

\* a comparator with an algorithm and an analyzer that exist has been called
Called == pc = "done" /\ ~Misconfigured

\* C1: every comparator returns exactly its missing_value, and raises
\* nothing, for every pair one of whose sides is missing or empty.
C1_MissingYieldsMissingValue ==
    Called =>
        /\ compared.exc = "none"
        /\ \A i \in DOMAIN source_column :
               FieldMissing(source_column[i]) \/ FieldMissing(target_column[i]) =>
                   /\ i \in DOMAIN compared.series
                   /\ compared.series[i] = feature.missing_value

\* the similarity of the chosen algorithm, a missing score replaced by
\* missing_value
FilledSimilarity ==
    LET similarity == IF feature.algorithm = "levenshtein"
                      THEN levenshtein_similarity(feature, source_column, target_column)
                      ELSE cosine_similarity(feature, source_column, target_column).series
    IN [i \in DOMAIN similarity |->
           IF IsNaN(similarity[i]) THEN feature.missing_value ELSE similarity[i]]

\* C29: with a threshold, StringList returns 1.0 for exactly the pairs whose
\* similarity, missing scores replaced by missing_value, is greater than or
\* equal to the threshold and 0.0 for all others; without a threshold it
\* returns the filled similarity unchanged.
C29_ThresholdOnFilledSimilarity ==
    (Called /\ feature.class = "StringList" /\ compared.exc = "none") =>
        /\ DOMAIN compared.series = DOMAIN FilledSimilarity
        /\ \A i \in DOMAIN compared.series :
              IF feature.threshold = NoThreshold
              THEN compared.series[i] = FilledSimilarity[i]
              ELSE /\ compared.series[i] \in {Rat(0, 1), Rat(1, 1)}
                   /\ compared.series[i] = Rat(1, 1)
                        <=> Geq(FilledSimilarity[i], feature.threshold)

\* C29: with a threshold, one pair scored 1.0 for a filled similarity equal to
\* the threshold, and another scored 0.0
C29_Witness ==
    /\ Called
    /\ feature.class = "StringList"
    /\ feature.threshold # NoThreshold
    /\ compared.exc = "none"
    /\ Len(source_column) = 2
    /\ \E i, j \in DOMAIN compared.series :
          /\ compared.series[i] = Rat(1, 1)
          /\ FilledSimilarity[i] = feature.threshold
          /\ compared.series[j] = Rat(0, 1)

\* x > y for two scores
Greater(x, y) == Geq(x, y) /\ x # y

BothDates(i) == source_column[i].t = "period" /\ target_column[i].t = "period"

\* C2: DateCompare scores every pair of non-null dates, and the score is
\* strictly higher the further the dates agree: year, then month, then day.
C2_DateCompareGraduated ==
    Called /\ feature.class = "DateCompare" =>
        /\ \A i \in DOMAIN source_column : BothDates(i) => i \in DOMAIN compared.series
        /\ \A i, j \in DOMAIN source_column :
               /\ BothDates(i) /\ BothDates(j)
               /\ check_equality(source_column[i], target_column[i])
                    > check_equality(source_column[j], target_column[j])
               => Greater(compared.series[i], compared.series[j])

\* a non-null scalar as the one-element list holding it
Listify(cell) == IF cell.t = "str" /\ cell.v # <<>> THEN List(<<cell>>) ELSE cell

ListifyAll(column) == [i \in DOMAIN column |-> Listify(column[i])]

HasScalar == \E i \in DOMAIN source_column :
                 Listify(source_column[i]) # source_column[i]
                   \/ Listify(target_column[i]) # target_column[i]

\* C3: StringList (levenshtein) and UrlList score a pair with a bare non-null
\* scalar on either side, or on both, as they score the pair with the scalar
\* wrapped into a one-element list, and raise nothing.
C3_ScalarAsSingleton ==
    /\ Called
    /\ \/ feature.class = "UrlList"
       \/ feature.class = "StringList" /\ feature.algorithm = "levenshtein"
    => /\ compared.exc = "none"
       /\ compared = Compare(feature, ListifyAll(source_column), ListifyAll(target_column))

IsUrl(x) == x.t = "str"

\* a side holding exactly one URL
OneUrl(cell) == cell.t = "list" /\ Len(cell.v) = 1 /\ IsUrl(cell.v[1])

\* two non-empty sides with no URL in common
Disjoint(s, t) ==
    /\ s.t = "list" /\ s.v # <<>>
    /\ t.t = "list" /\ t.v # <<>>
    /\ {u \in Range(s.v) : IsUrl(u)} \cap {u \in Range(t.v) : IsUrl(u)} = {}

DefaultUrlList ==
    /\ feature.class = "UrlList"
    /\ feature.agree_value = Rat(1, 1)
    /\ feature.disagree_value = Rat(0, 1)
    /\ feature.missing_value = Rat(0, 1)

\* C4: UrlList with its default parameters scores 1.0 a pair whose sides each
\* hold exactly one URL, the same on both sides, and 0.0 a pair whose sides
\* are non-empty and share no URL.
C4_UrlListAgreeDisagree ==
    Called /\ DefaultUrlList =>
        /\ compared.exc = "none"
        /\ \A i \in DOMAIN source_column :
               /\ OneUrl(source_column[i]) /\ source_column[i] = target_column[i]
                    => compared.series[i] = Rat(1, 1)
               /\ Disjoint(source_column[i], target_column[i])
                    => compared.series[i] = Rat(0, 1)

\* C4's case: one call scoring an agreeing pair 1.0 and a disjoint pair 0.0
C4_Witness ==
    /\ Called /\ DefaultUrlList
    /\ \E i, j \in DOMAIN source_column :
           /\ OneUrl(source_column[i]) /\ source_column[i] = target_column[i]
           /\ compared.series[i] = Rat(1, 1)
           /\ Disjoint(source_column[j], target_column[j])
           /\ compared.series[j] = Rat(0, 1)

LevenshteinCalled ==
    Called /\ feature.class = "StringList" /\ feature.algorithm = "levenshtein"

C6_OneScorePerPair ==
    Called =>
        /\ compared.exc = "none"
        /\ Len(compared.series) = Len(source_column)
        /\ \A i \in DOMAIN source_column :
               compared.series[i]
                 = Compare(feature, <<source_column[i]>>, <<target_column[i]>>).series[1]

\* C13: a StringList whose algorithm is neither 'levenshtein' nor 'cosine', or
\* whose algorithm is 'cosine' with an analyzer that does not exist, raises
\* ValueError on every call, zero pairs included, and never returns scores.
C13_MisconfiguredRaises ==
    (pc = "done" /\ Misconfigured) => compared.exc = "ValueError"

-----------------------------------------------------------------------------
(* Properties of the blocker, checked under SpecBlock *)

\* the pairs (q, t) of a Wikidata row q and a target row t holding the same
\* non-null blocking key
EqualKeyPairs ==
    {<<wikidata_df[ij[1]].id, target_df[ij[2]].id>> :
        ij \in {xy \in (DOMAIN wikidata_df) \X (DOMAIN target_df) :
                   /\ wikidata_df[xy[1]].tid.t = "str"
                   /\ wikidata_df[xy[1]].tid = target_df[xy[2]].tid}}

\* C7: train_test_block returns exactly the pairs of identifiers of rows that
\* hold the same non-null target ID, and nothing when a table has no rows.
C7_BlockExactlyEqualKeys ==
    runs >= 1 =>
        /\ Range(candidate_pairs) = EqualKeyPairs
        /\ (wikidata_df = <<>> \/ target_df = <<>>) => candidate_pairs = <<>>

\* C7's case: rows with null keys on both sides, a pair returned and a pair
\* left out
C7_Witness ==
    /\ runs = 1
    /\ \E i \in DOMAIN wikidata_df : IsNa(wikidata_df[i].tid)
    /\ \E j \in DOMAIN target_df : IsNa(target_df[j].tid)
    /\ candidate_pairs # <<>>
    /\ Len(candidate_pairs) < Len(wikidata_df) * Len(target_df)

\* C8: a second run of train_test_block on the same tables, their rows in any
\* order, returns the same set of candidate pairs as the first.
C8_BlockOrderIndependent ==
    runs = 2 => Range(candidate_pairs) = Range(first_pairs)

\* C8's case: the second run saw the rows in another order and listed the
\* same pairs in another order
C8_Witness ==
    /\ runs = 2
    /\ Len(candidate_pairs) >= 2
    /\ candidate_pairs # first_pairs
    /\ Range(candidate_pairs) = Range(first_pairs)

-----------------------------------------------------------------------------
(* Preprocessing of the target table                                       *)
(* A DataFrame is a sequence of rows; a row is a record of its index label *)
(* and its columns.                                                        *)

\* a called function returns a DataFrame ...
Returned(df) == [exc |-> "none", df |-> df]

\* ... or raises
Raised(exc) == [exc |-> exc, df |-> <<>>]

\* the lambda with the length test loosened to "not empty"
PullCell_nonempty(cell) ==
    IF cell.t = "list" /\ Len(cell.v) >= 1 THEN cell.v[1] ELSE cell

\* lambda cell: cell[0] if isinstance(cell, list) and len(cell) == 1 else cell
PullCell(cell) ==
    IF cell.t = "list" /\ Len(cell.v) = 1 THEN cell.v[1] ELSE cell

\* df.applymap(...): a new frame, same index, same columns
_pull_out_from_single_value_list(df) ==
    [i \in DOMAIN df |->
        [c \in DOMAIN df[i] |-> IF c = "index" THEN df[i][c] ELSE PullCell(df[i][c])]]

\* soweego.wikidata.vocabulary: the Wikidata date precisions
YEAR == 9

MONTH == 10

DAY == 11

HOUR == 12

MINUTE == 13

SECOND == 14

DATE_PRECISION == 0..SECOND

DigitValue ==
    ("0" :> 0) @@ ("1" :> 1) @@ ("2" :> 2) @@ ("3" :> 3) @@ ("4" :> 4) @@
    ("5" :> 5) @@ ("6" :> 6) @@ ("7" :> 7) @@ ("8" :> 8) @@ ("9" :> 9)

RECURSIVE Number(_)
Number(chars) ==
    IF chars = <<>> THEN 0
    ELSE 10 * Number(SubSeq(chars, 1, Len(chars) - 1)) + DigitValue[chars[Len(chars)]]

\* text[:n]
Slice(chars, n) == SubSeq(chars, 1, IF n < Len(chars) THEN n ELSE Len(chars))

\* pd.Period(text) of an ISO 8601 text: its resolution is that of the text
pd_Period(chars) ==
    LET field(from, to) == IF Len(chars) >= to THEN <<Number(SubSeq(chars, from, to))>>
                           ELSE <<>>
    IN [t |-> "period",
        v |-> field(1, 4) \o field(6, 7) \o field(9, 10) \o field(12, 13)
              \o field(15, 16) \o field(18, 19)]

\* precision is constant: true of two equal small ints, never of a float
Is(precision, constant) == precision.t = "int" /\ precision.v[1] = constant

\* one turn of the loop of _parse_dates_list: what it appends to dates
ParseDate(date, precision) ==
    IF IsNa(date) \/ IsNa(precision) THEN <<>>
    ELSE IF precision.v[1] \in DATE_PRECISION
    THEN IF precision.v[1] < YEAR THEN <<pd_Period(Slice(date.v, 4))>>
         ELSE IF Is(precision, YEAR) THEN <<pd_Period(Slice(date.v, 4))>>
         ELSE IF Is(precision, MONTH) THEN <<pd_Period(Slice(date.v, 7))>>
         ELSE IF Is(precision, DAY) THEN <<pd_Period(Slice(date.v, 10))>>
         ELSE IF Is(precision, HOUR) THEN <<pd_Period(Slice(date.v, 13))>>
         ELSE IF Is(precision, MINUTE) THEN <<pd_Period(Slice(date.v, 16))>>
         ELSE IF Is(precision, SECOND) THEN <<pd_Period(date.v)>>
         ELSE <<>>
    ELSE <<pd_Period(date.v)>>

_parse_dates_list(dates_list) ==
    LET dates == Flatten([i \in DOMAIN dates_list.v |->
                             ParseDate(dates_list.v[i].v[1], dates_list.v[i].v[2])])
    IN IF dates = <<>> THEN NaNCell ELSE List(dates)

\* Series.map(_parse_dates_list, na_action='ignore') on both date columns
_handle_dates(df) ==
    LET parsed(cell) == IF IsNa(cell) THEN cell ELSE _parse_dates_list(cell)
    IN [i \in DOMAIN df |->
           [df[i] EXCEPT !.date_of_birth = parsed(@), !.date_of_death = parsed(@)]]

RECURSIVE JoinStrings(_)
JoinStrings(strings) ==
    IF strings = <<>> THEN <<>>
    ELSE IF Len(strings) = 1 THEN strings[1].v
    ELSE strings[1].v \o <<" ">> \o JoinStrings(Tail(strings))

\* Series.str.join(' ') of one cell: NaN unless every item is a str
str_join(cell) ==
    IF cell.t = "list" /\ \A k \in DOMAIN cell.v : cell.v[k].t = "str"
    THEN Str(JoinStrings(cell.v))
    ELSE NaNCell

_join_descriptions(df) ==
    [i \in DOMAIN df |-> [df[i] EXCEPT !.description = str_join(@)]]

_handle_goal_value(goal_value) == goal_value \in {"training", "classification"}

\* a column with a null among its numbers is read as float64, else as int64
FloatColumn(reader, column) == \E i \in DOMAIN reader : reader[i][column] = None

AsRead(reader, column, i) ==
    LET x == reader[i][column]
    IN IF ~FloatColumn(reader, column) THEN x
       ELSE IF x = None THEN NaNCell ELSE PyFloat(x.v[1])

\* 1. pd.concat(chunks, ignore_index=True)
pd_concat(reader) ==
    [i \in DOMAIN reader |->
        [index |-> i - 1,
         tid |-> reader[i].tid,
         name |-> reader[i].name,
         name_tokens |-> reader[i].name_tokens,
         url |-> reader[i].url,
         description |-> reader[i].description,
         date_of_birth |-> reader[i].date_of_birth,
         birth_precision |-> AsRead(reader, "birth_precision", i),
         date_of_death |-> reader[i].date_of_death,
         death_precision |-> AsRead(reader, "death_precision", i)]]

\* a zip that pairs every date with the precision of the first row
MergeDatesWithPrecision_first_row(df) ==
    [i \in DOMAIN df |->
        [index |-> df[i].index,
         tid |-> df[i].tid,
         name |-> df[i].name,
         name_tokens |-> df[i].name_tokens,
         url |-> df[i].url,
         description |-> df[i].description,
         date_of_birth |-> Tuple(df[i].date_of_birth, df[1].birth_precision),
         date_of_death |-> Tuple(df[i].date_of_death, df[1].death_precision)]]

\* 2. zip each date with its precision, drop the precision columns
MergeDatesWithPrecision(df) ==
    [i \in DOMAIN df |->
        [index |-> df[i].index,
         tid |-> df[i].tid,
         name |-> df[i].name,
         name_tokens |-> df[i].name_tokens,
         url |-> df[i].url,
         description |-> df[i].description,
         date_of_birth |-> Tuple(df[i].date_of_birth, df[i].birth_precision),
         date_of_death |-> Tuple(df[i].date_of_death, df[i].death_precision)]]

\* the orders in which a set may be listed
Enumerations(S) == {e \in [1..Cardinality(S) -> S] : Range(e) = S}

\* a tuple that holds a NaN read from a float64 column equals no other tuple
EqualsNothing(cell) ==
    cell.t = "tuple" /\ \E k \in DOMAIN cell.v : cell.v[k] = NaNCell

\* lambda x: list(set(x)) on the cells of one column of one group
ListOfSet(df, group, column) ==
    LET items == {<<df[i][column], IF EqualsNothing(df[i][column]) THEN i ELSE 0>> :
                      i \in group}
    IN {List([k \in DOMAIN e |-> e[k][1]]) : e \in Enumerations(items)}

\* the group keys of groupby, sorted
SortedTIDs == <<"t1", "t2">>

GroupKeys(df) ==
    SelectSeq(SortedTIDs, LAMBDA t : \E i \in DOMAIN df : df[i].tid = Str(<<t>>))

\* 3. target.groupby(TID).agg(lambda x: list(set(x))): every table it may give
Aggregated(df) ==
    LET keys == GroupKeys(df)
        group(t) == {i \in DOMAIN df : df[i].tid = Str(<<t>>)}
        rows(t) == [index : {Str(<<t>>)},
                    name : ListOfSet(df, group(t), "name"),
                    name_tokens : ListOfSet(df, group(t), "name_tokens"),
                    url : ListOfSet(df, group(t), "url"),
                    description : ListOfSet(df, group(t), "description"),
                    date_of_birth : ListOfSet(df, group(t), "date_of_birth"),
                    date_of_death : ListOfSet(df, group(t), "date_of_death")]
    IN {agg \in [DOMAIN keys -> UNION {rows(keys[k]) : k \in DOMAIN keys}] :
            \A k \in DOMAIN keys : agg[k] \in rows(keys[k])}

\* 4. target[TID] = target.index
WithTargetId(df) ==
    [i \in DOMAIN df |->
        [index |-> df[i].index,
         tid |-> df[i].index,
         name |-> df[i].name,
         name_tokens |-> df[i].name_tokens,
         url |-> df[i].url,
         description |-> df[i].description,
         date_of_birth |-> df[i].date_of_birth,
         date_of_death |-> df[i].date_of_death]]

\* _preprocess_target as a whole: the tables it may return, none if it raises
PreprocessedTargets(goal_value, reader) ==
    IF ~_handle_goal_value(goal_value) \/ reader = <<>> THEN {}
    ELSE {_pull_out_from_single_value_list(_handle_dates(_join_descriptions(
              IF goal_value = "training" THEN WithTargetId(agg) ELSE agg))) :
            agg \in Aggregated(MergeDatesWithPrecision(pd_concat(reader)))}

-----------------------------------------------------------------------------
(* Preprocessing of the Wikidata table: workflow._preprocess_wikidata *)

RECURSIVE JoinWords(_)
JoinWords(words) ==
    IF words = <<>> THEN <<>>
    ELSE IF Len(words) = 1 THEN words[1]
    ELSE words[1] \o <<" ">> \o JoinWords(Tail(words))

\* _preprocess_strings_list and _preprocess_urls_list
_preprocess_strings_list(strings_list) ==
    LET values == Iterate(strings_list)
        joined == Flatten([k \in DOMAIN values |->
                              IF tokenize(values[k]) # <<>>
                              THEN <<Str(JoinWords(tokenize(values[k])))>> ELSE <<>>])
    IN IF joined = <<>> THEN None ELSE List(joined)

\* lambda cell: ' '.join(cell) if isinstance(cell, list) else cell
JoinTargetIds(cell) == IF cell.t = "list" THEN Str(JoinStrings(cell.v)) ELSE cell

\* steps 1 to 7 on the one chunk the reader yields
PreprocessedChunk(goal_value, chunk) ==
    LET mapped(cell) == IF IsNa(cell) THEN cell ELSE _preprocess_strings_list(cell)
        indexed == [i \in DOMAIN chunk |->
                       [index |-> chunk[i].qid,
                        tid |-> IF goal_value = "training" THEN JoinTargetIds(chunk[i].tid)
                                ELSE chunk[i].tid,
                        name |-> chunk[i].name,
                        description |-> chunk[i].description,
                        url |-> chunk[i].url,
                        date_of_birth |-> chunk[i].date_of_birth,
                        date_of_death |-> chunk[i].date_of_death,
                        name_tokens |-> mapped(chunk[i].name),
                        url_tokens |-> mapped(chunk[i].url)]]
    IN _pull_out_from_single_value_list(_handle_dates(_join_descriptions(indexed)))

\* _preprocess_wikidata: the table it returns, none if it raises
PreprocessedWikidata(goal_value, reader) ==
    IF ~_handle_goal_value(goal_value) \/ reader = <<>> THEN {}
    ELSE {PreprocessedChunk(goal_value, reader)}

-----------------------------------------------------------------------------
(* The inputs of the preprocessing functions *)

Timestamp1 ==
    <<"1", "9", "9", "0", "-", "0", "1", "-", "0", "2",
      "T", "0", "0", ":", "0", "0", ":", "0", "0", "Z">>

Timestamp2 ==
    <<"1", "9", "9", "0", "-", "0", "5", "-", "0", "6",
      "T", "0", "0", ":", "0", "0", ":", "0", "0", "Z">>

\* a date of birth with its precision, as the catalog records them
Births ==
    {<<None, None>>, <<Str(Timestamp1), PyInt(YEAR)>>,
     <<Str(Timestamp2), PyInt(YEAR)>>, <<Str(Timestamp1), PyInt(DAY)>>}

\* what the catalog holds once per entity, repeated on each of its rows
BaseEntity(t) ==
    IF t = "t1"
    THEN [description |-> Str(<<"x">>), date_of_death |-> Str(Timestamp2),
          death_precision |-> PyInt(DAY)]
    ELSE [description |-> None, date_of_death |-> None, death_precision |-> None]

\* the importer stores the tokens of a name next to it
NameTokens(name) == Str(JoinWords(tokenize(name)))

\* a row of the denormalized target dataset
TargetRows ==
    {[tid |-> Str(<<t>>), name |-> Str(n),
      name_tokens |-> NameTokens(Str(n)), url |-> None,
      description |-> BaseEntity(t).description,
      date_of_birth |-> b[1], birth_precision |-> b[2],
      date_of_death |-> BaseEntity(t).date_of_death,
      death_precision |-> BaseEntity(t).death_precision] :
        t \in TIDs, n \in {<<"a">>, <<"a", "b">>}, b \in Births}

TargetReaders == SeqsUpTo(TargetRows, MaxRows)

Goals == {"training", "classification", "linking"}

\* what a cell of a preprocessed column may hold
PullElements == {None, Str(<<"a">>), List(<<Str(<<"a">>)>>)}

PullCells ==
    {None, NaNCell, Str(<<"a">>), [t |-> "tuple", v |-> <<Str(<<"a">>)>>]}
        \cup {List(l) : l \in SeqsUpTo(PullElements, MaxListLen)}

PullFrames ==
    {[i \in DOMAIN column |-> [index |-> i - 1, name |-> column[i]]] :
        column \in SeqsUpTo(PullCells, MaxRows)}

\* a precision coarser than year, and one that Wikidata does not define
DECADE == 8

UNDEFINED_PRECISION == 15

\* the (date, precision) entries of a dates list
DateEntries ==
    {Tuple(date, precision) :
        date \in {None, Str(Timestamp1)},
        precision \in {None, PyInt(DECADE), PyFloat(DECADE), PyInt(YEAR), PyInt(DAY),
                       PyInt(UNDEFINED_PRECISION)}}

DatesLists == {List(l) : l \in SeqsUpTo(DateEntries, MaxListLen)}

PrepNotCalled == Raised("not called")

InitPreprocess ==
    /\ IdleGathering
    /\ IdleFit
    /\ IdleCompare
    /\ IdleBlock
    /\ IdleWorkflow
    /\ IdleLinker
    /\ preprocessed = PrepNotCalled
    /\ step = "start"
    /\ \/ /\ called = "_preprocess_target"
          /\ goal \in Goals
          /\ target_reader \in TargetReaders
          /\ target_frame = <<>>
       \/ /\ called = "_pull_out_from_single_value_list"
          /\ goal = "none"
          /\ target_reader = <<>>
          /\ target_frame \in PullFrames
       \/ /\ called = "_parse_dates_list"
          /\ goal = "none"
          /\ target_reader = <<>>
          /\ target_frame \in DatesLists

\* a call of _parse_dates_list on a dates list of its own
ParseDatesList ==
    /\ called = "_parse_dates_list"
    /\ step = "start"
    /\ preprocessed' = Returned(_parse_dates_list(target_frame))
    /\ step' = "done"
    /\ UNCHANGED <<called, goal, target_reader, target_frame, besides_preprocess>>

\* a call of _pull_out_from_single_value_list on a frame of its own
PullOutFromSingleValueList ==
    /\ called = "_pull_out_from_single_value_list"
    /\ step = "start"
    /\ preprocessed' = Returned(_pull_out_from_single_value_list(target_frame))
    /\ step' = "done"
    /\ UNCHANGED <<called, goal, target_reader, target_frame, besides_preprocess>>

\* _preprocess_target: the goal check and step 1
LoadTarget ==
    /\ called = "_preprocess_target"
    /\ step = "start"
    /\ IF ~_handle_goal_value(goal) \/ target_reader = <<>>
       THEN /\ preprocessed' = Raised("ValueError")
            /\ step' = "done"
            /\ UNCHANGED target_frame
       ELSE /\ target_frame' = pd_concat(target_reader)
            /\ step' = "merge dates"
            /\ UNCHANGED preprocessed
    /\ UNCHANGED <<called, goal, target_reader, besides_preprocess>>

\* step 2
MergeDates ==
    /\ step = "merge dates"
    /\ target_frame' = MergeDatesWithPrecision(target_frame)
    /\ step' = "aggregate"
    /\ UNCHANGED <<called, goal, target_reader, preprocessed, besides_preprocess>>

\* step 3
Aggregate ==
    /\ step = "aggregate"
    /\ target_frame' \in Aggregated(target_frame)
    /\ step' = "target id"
    /\ UNCHANGED <<called, goal, target_reader, preprocessed, besides_preprocess>>

\* step 4
TargetIdColumn ==
    /\ step = "target id"
    /\ target_frame' = IF goal = "training" THEN WithTargetId(target_frame)
                       ELSE target_frame
    /\ step' = "join descriptions"
    /\ UNCHANGED <<called, goal, target_reader, preprocessed, besides_preprocess>>

\* step 5
JoinDescriptions ==
    /\ step = "join descriptions"
    /\ target_frame' = _join_descriptions(target_frame)
    /\ step' = "handle dates"
    /\ UNCHANGED <<called, goal, target_reader, preprocessed, besides_preprocess>>

\* step 6
HandleDates ==
    /\ step = "handle dates"
    /\ target_frame' = _handle_dates(target_frame)
    /\ step' = "pull out"
    /\ UNCHANGED <<called, goal, target_reader, preprocessed, besides_preprocess>>

\* step 7 and the return
PullOut ==
    /\ step = "pull out"
    /\ target_frame' = _pull_out_from_single_value_list(target_frame)
    /\ preprocessed' = Returned(target_frame')
    /\ step' = "done"
    /\ UNCHANGED <<called, goal, target_reader, besides_preprocess>>

NextPreprocess ==
    \/ PullOutFromSingleValueList
    \/ ParseDatesList
    \/ LoadTarget
    \/ MergeDates
    \/ Aggregate
    \/ TargetIdColumn
    \/ JoinDescriptions
    \/ HandleDates
    \/ PullOut

SpecPreprocess == InitPreprocess /\ [][NextPreprocess]_vars

-----------------------------------------------------------------------------
(* Feature extraction and training: workflow.extract_features,             *)
(* workflow.init_model, train._train                                       *)

\* a call returns a value ...
Gave(value) == [exc |-> "none", value |-> value]

\* ... or raises
Threw(exc) == [exc |-> exc, value |-> <<>>]

\* the classifier classes of recordlinkage that CLASSIFIERS names
ClassifierKinds ==
    {"NaiveBayesClassifier", "LogisticRegressionClassifier", "SVMClassifier",
     "LinearSVMClassifier", "RandomForestClassifier", "SingleLayerPerceptron",
     "MultiLayerPerceptron", "VotingClassifier", "GatedClassifier",
     "StackedClassifier"}

\* with neither branch taken, "return model" reads a local that was never bound
init_model(classifier, binarize) ==
    IF classifier = "NaiveBayesClassifier"
    THEN Gave([class |-> classifier, binarize |-> binarize, fitted |-> FALSE])
    ELSE IF classifier = "SVMClassifier" THEN Threw("NotImplementedError")
    ELSE Threw("UnboundLocalError")

\* a fit that is told of no match
_train_no_matches(classifier, feature_vectors, pairs, binarize) ==
    LET model == init_model(classifier, binarize)
    IN IF model.exc # "none" THEN model
       ELSE Gave([class |-> model.value.class, binarize |-> model.value.binarize,
                  fitted |-> TRUE, comparison_vectors |-> feature_vectors,
                  match_index |-> <<>>])

\* model.fit(feature_vectors, candidate_pairs): the fitted model keeps what it
\* was given as comparison vectors and as the index of the matches
_train(classifier, feature_vectors, pairs, binarize) ==
    LET model == init_model(classifier, binarize)
    IN IF model.exc # "none" THEN model
       ELSE Gave([class |-> model.value.class, binarize |-> model.value.binarize,
                  fitted |-> TRUE, comparison_vectors |-> feature_vectors,
                  match_index |-> pairs])

\* df.loc[label]: the row of that index label
Loc(df, label) == df[CHOOSE i \in DOMAIN df : df[i].index = label]

\* the three features extract_features adds to rl.Compare
url_exact ==
    [class |-> "UrlList", agree_value |-> Rat(1, 1), disagree_value |-> Rat(0, 1),
     missing_value |-> Rat(0, 1)]

name_levenshtein ==
    [class |-> "StringList", algorithm |-> "levenshtein", threshold |-> NoThreshold,
     missing_value |-> Rat(0, 1), analyzer |-> "None"]

description_cosine ==
    [class |-> "StringList", algorithm |-> "cosine", threshold |-> NoThreshold,
     missing_value |-> Rat(0, 1), analyzer |-> "soweego"]

\* the cell of row k of a result column; concat fills the shorter columns with NaN
CellOf(series, k) == IF k \in DOMAIN series THEN series[k] ELSE NaN

\* rl.Compare.compute: one column per feature side by side, indexed by the pairs
extract_features(pairs, wikidata, target) ==
    LET left(column) == [k \in DOMAIN pairs |->
                            Loc(wikidata, pairs[k][1])[column]]
        right(column) == [k \in DOMAIN pairs |->
                             Loc(target, pairs[k][2])[column]]
        url == UrlList_compute_vectorized(url_exact, left("url"), right("url"))
        name == StringList_compute_vectorized(name_levenshtein, left("name_tokens"),
                                              right("name_tokens"))
        description == StringList_compute_vectorized(description_cosine,
                           left("description"), right("description"))
        rows == Max(Len(url.series), Max(Len(name.series), Len(description.series)))
    IN IF url.exc # "none" THEN Threw(url.exc)
       ELSE IF name.exc # "none" THEN Threw(name.exc)
       ELSE IF description.exc # "none" THEN Threw(description.exc)
       ELSE IF rows # Len(pairs) THEN Threw("ValueError")
       ELSE Gave([columns |-> <<"url_exact", "name_levenshtein", "description_cosine">>,
                  index |-> pairs,
                  rows |-> [k \in 1..rows |->
                               <<CellOf(url.series, k), CellOf(name.series, k),
                                 CellOf(description.series, k)>>]])

\* a preprocessed table as the blocker reads it: index labels and blocking keys
Keyed(df) == [i \in DOMAIN df |-> [id |-> df[i].index, tid |-> df[i].tid]]

\* preprocessing of both sides, blocking, feature extraction: every way it may go
LinkedFeatures(wikidata_reader, target_reader_rows) ==
    LET wd_tables == PreprocessedWikidata("training", wikidata_reader)
        target_tables == PreprocessedTargets("training", target_reader_rows)
    IN IF wd_tables = {} \/ target_tables = {} THEN {Threw("ValueError")}
       ELSE {extract_features(train_test_block(Keyed(wd), Keyed(t)), wd, t) :
                wd \in wd_tables, t \in target_tables}

-----------------------------------------------------------------------------
(* The workflow on the I/O directory: build_wikidata, build_target,        *)
(* preprocess, train_test_build, and train.execute                         *)

Catalogs == {"discogs", "imdb"}

Entities == {"musician", "band"}

\* os.path.join(dir_io, constant % catalog): the catalog is all that is formatted in
Path(constant, catalog) == <<constant, catalog>>

DatasetConstants ==
    {"WD_TRAINING_SET", "WD_CLASSIFICATION_SET",
     "TARGET_TRAINING_SET", "TARGET_CLASSIFICATION_SET"}

DataFrameConstants ==
    {"WD_TRAINING_DATAFRAME", "WD_CLASSIFICATION_DATAFRAME",
     "TARGET_TRAINING_DATAFRAME", "TARGET_CLASSIFICATION_DATAFRAME"}

AllPaths == (DatasetConstants \cup DataFrameConstants) \X Catalogs

Absent == [kind |-> "absent"]

\* a gzipped JSON lines file
JsonLines(rows) == [kind |-> "jsonl", rows |-> rows]

\* a pickled DataFrame
Pickle(df) == [kind |-> "pickle", df |-> df]

os_path_exists(fs, path) == fs[path] # Absent

\* pd.to_pickle that writes nothing
to_pickle_skipped(fs, path, df) == fs

pd_to_pickle(fs, path, df) == [fs EXCEPT ![path] = Pickle(df)]

pd_read_pickle(fs, path) == fs[path].df

\* what a call did: the files it left, what it raised or returned, the paths
\* it tested, read or wrote, the paths it wrote, the readers it iterated
Outcome(fs, exc, value, paths, written, readers) ==
    [files |-> fs, exc |-> exc, value |-> value, accessed |-> paths,
     written |-> written, consumed |-> readers]

\* the QIDs with their target identifiers, as the dataset file lists them
QidsAndTids(rows) == {<<rows[i].qid, rows[i].tid>> : i \in DOMAIN rows}

\* the rows the Wikidata Web API may give for a catalog
WikidataRow ==
    [qid |-> Str(<<"Q1">>), tid |-> List(<<Str(<<"t1">>)>>),
     name |-> List(<<Str(<<"A", " ", "b">>)>>),
     description |-> List(<<Str(<<"x">>)>>),
     url |-> None,
     date_of_birth |-> List(<<Tuple(Str(<<"1", "9", "9", "0">>), PyInt(9))>>),
     date_of_death |-> None]

WikidataDatasets == {<<>>, <<WikidataRow>>}

\* the rows the catalog database may give
CatalogRow ==
    [tid |-> Str(<<"t1">>), name |-> Str(<<"A", " ", "b">>),
     name_tokens |-> NameTokens(Str(<<"A", " ", "b">>)), url |-> None,
     description |-> Str(<<"x">>),
     date_of_birth |-> Str(<<"1", "9", "9", "0">>), birth_precision |-> PyInt(9),
     date_of_death |-> None, death_precision |-> None]

CatalogDatasets == {<<>>, <<CatalogRow>>}

\* a goal test that lets every goal through
GoalIsKnown_always(goal_value) == TRUE

\* the if / elif / else on goal that opens build_wikidata, build_target, preprocess
GoalIsKnown(goal_value) == goal_value \in {"training", "classification"}

build_wikidata(fs, goal_value, catalog, entity) ==
    IF ~GoalIsKnown(goal_value)
    THEN {Outcome(fs, "ValueError", <<>>, {}, {}, {})}
    ELSE LET wd_io_path == Path(IF goal_value = "training" THEN "WD_TRAINING_SET"
                                ELSE "WD_CLASSIFICATION_SET", catalog)
             returned(rows) ==
                 [reader |-> rows,
                  qids_and_tids |-> IF goal_value = "training"
                                    THEN [t |-> "dict", v |-> QidsAndTids(rows)]
                                    ELSE None]
         IN IF os_path_exists(fs, wd_io_path)
            THEN {Outcome(fs, "none", returned(fs[wd_io_path].rows),
                          {wd_io_path}, {}, {})}
            ELSE {Outcome([fs EXCEPT ![wd_io_path] = JsonLines(rows)], "none",
                          returned(rows), {wd_io_path}, {wd_io_path}, {}) :
                     rows \in WikidataDatasets}

\* gather_target_dataset: _run_query gives None for zero rows, and then sys.exit(1)
gather_target_dataset(fs, target_io_path, rows) ==
    IF rows = <<>>
    THEN Outcome([fs EXCEPT ![target_io_path] = JsonLines(<<>>)], "SystemExit", <<>>,
                 {target_io_path}, {target_io_path}, {})
    ELSE Outcome([fs EXCEPT ![target_io_path] = JsonLines(rows)], "none", rows,
                 {target_io_path}, {target_io_path}, {})

build_target(fs, goal_value, catalog, entity, qids_and_tids) ==
    IF ~GoalIsKnown(goal_value)
    THEN {Outcome(fs, "ValueError", <<>>, {}, {}, {})}
    ELSE LET target_io_path == Path(IF goal_value = "training" THEN "TARGET_TRAINING_SET"
                                    ELSE "TARGET_CLASSIFICATION_SET", catalog)
         IN IF os_path_exists(fs, target_io_path)
            THEN {Outcome(fs, "none", fs[target_io_path].rows, {target_io_path}, {}, {})}
            ELSE IF goal_value = "classification" /\ qids_and_tids.t = "dict"
                                                  /\ qids_and_tids.v # {}
            THEN {Outcome(fs, "ValueError", <<>>, {target_io_path}, {}, {})}
            ELSE IF goal_value = "training" /\ qids_and_tids.t = "none"
            THEN {Outcome(fs, "AttributeError", <<>>, {target_io_path}, {}, {})}
            ELSE {gather_target_dataset(fs, target_io_path, rows) :
                     rows \in CatalogDatasets}

\* preprocess(goal, catalog, wikidata_reader, target_reader, dir_io)
preprocess(fs, goal_value, catalog, wikidata_reader, target_reader_rows) ==
    IF ~GoalIsKnown(goal_value)
    THEN {Outcome(fs, "ValueError", <<>>, {}, {}, {})}
    ELSE LET wd_io_path == Path(IF goal_value = "training" THEN "WD_TRAINING_DATAFRAME"
                                ELSE "WD_CLASSIFICATION_DATAFRAME", catalog)
             target_io_path == Path(IF goal_value = "training"
                                    THEN "TARGET_TRAINING_DATAFRAME"
                                    ELSE "TARGET_CLASSIFICATION_DATAFRAME", catalog)
             wd_cached == os_path_exists(fs, wd_io_path)
             wd_tables == IF wd_cached THEN {pd_read_pickle(fs, wd_io_path)}
                          ELSE PreprocessedWikidata(goal_value, wikidata_reader)
             wd_read == IF wd_cached THEN {} ELSE {"wikidata"}
             wd_written == IF wd_cached THEN {} ELSE {wd_io_path}
             after_wd(wd) == IF wd_cached THEN fs ELSE pd_to_pickle(fs, wd_io_path, wd)
             target_cached(fs1) == os_path_exists(fs1, target_io_path)
             target_tables(fs1) == IF target_cached(fs1)
                                   THEN {pd_read_pickle(fs1, target_io_path)}
                                   ELSE PreprocessedTargets(goal_value, target_reader_rows)
             target_read(fs1) == IF target_cached(fs1) THEN {} ELSE {"target"}
             target_written(fs1) == IF target_cached(fs1) THEN {} ELSE {target_io_path}
             after_target(fs1, df) == IF target_cached(fs1) THEN fs1
                                      ELSE pd_to_pickle(fs1, target_io_path, df)
         IN IF wd_tables = {}
            THEN {Outcome(fs, "ValueError", <<>>, {wd_io_path}, {}, wd_read)}
            ELSE UNION {
                   IF target_tables(after_wd(wd)) = {}
                   THEN {Outcome(after_wd(wd), "ValueError", <<>>,
                                 {wd_io_path, target_io_path}, wd_written,
                                 wd_read \cup target_read(after_wd(wd)))}
                   ELSE {Outcome(after_target(after_wd(wd), df), "none", <<wd, df>>,
                                 {wd_io_path, target_io_path},
                                 wd_written \cup target_written(after_wd(wd)),
                                 wd_read \cup target_read(after_wd(wd))) :
                            df \in target_tables(after_wd(wd))} :
                   wd \in wd_tables}

\* train_test_build: build_wikidata, then build_target on its QIDs and target IDs
train_test_build(fs, catalog, entity) ==
    UNION {
      IF wd.exc # "none" THEN {wd}
      ELSE {Outcome(t.files, t.exc,
                    IF t.exc = "none"
                    THEN [wd_df_reader |-> wd.value.reader, target_df_reader |-> t.value]
                    ELSE <<>>,
                    wd.accessed \cup t.accessed, wd.written \cup t.written, {}) :
               t \in build_target(wd.files, "training", catalog, entity,
                                  wd.value.qids_and_tids)} :
      wd \in build_wikidata(fs, "training", catalog, entity)}

\* the parameters of workflow.preprocess, all of them required
preprocess_parameters == <<"goal", "catalog", "wikidata_reader", "target_reader", "dir_io">>

\* train.execute: every step is handed what the step before it returned
execute(fs, classifier, catalog, entity, binarize) ==
    LET ended(o, steps, exc, model) ==
            [o EXCEPT !.exc = exc, !.value = [steps |-> steps, model |-> model]]
        arguments(b) == <<"training", b.value.wd_df_reader, b.value.target_df_reader>>
        fitted(p, pairs) ==
            UNION {
              {IF feature_vectors.exc # "none"
               THEN ended(p, <<"train_test_build", "preprocess", "train_test_block",
                               "extract_features">>, feature_vectors.exc, <<>>)
               ELSE ended(p, <<"train_test_build", "preprocess", "train_test_block",
                               "extract_features", "_train">>, model.exc, model.value) :
                  model \in {_train(classifier, feature_vectors.value, pairs, binarize)}} :
              feature_vectors \in {extract_features(pairs, p.value[1], p.value[2])}}
    IN UNION {
         IF b.exc # "none" THEN {ended(b, <<"train_test_build">>, b.exc, <<>>)}
         ELSE IF Len(arguments(b)) # Len(preprocess_parameters)
         THEN {ended(b, <<"train_test_build">>, "TypeError", <<>>)}
         ELSE UNION {
           IF p.exc # "none"
           THEN {ended(p, <<"train_test_build", "preprocess">>, p.exc, <<>>)}
           ELSE UNION {fitted(p, pairs) :
                          pairs \in {train_test_block(Keyed(p.value[1]),
                                                      Keyed(p.value[2]))}} :
           p \in {[q EXCEPT !.accessed = b.accessed \cup @, !.written = b.written \cup @] :
                    q \in preprocess(b.files, arguments(b)[1], arguments(b)[2],
                                     arguments(b)[3], arguments(b)[4])}} :
         b \in train_test_build(fs, catalog, entity)}

-----------------------------------------------------------------------------
(* The calls of the workflow *)

\* the classifiers the training is asked for
ExecuteClassifiers == {"NaiveBayesClassifier", "LogisticRegressionClassifier"}

Goals2 == {"training", "classification"}

NoInvocation == [catalog |-> "none", entity |-> "none", goal |-> "none"]

Invocation(call) == [catalog |-> call.catalog, entity |-> call.entity, goal |-> call.goal]

NoTables == [n |-> 0, tables |-> <<>>]

QidsAndTidsArguments == {None, [t |-> "dict", v |-> QidsAndTids(<<WikidataRow>>)]}

InitWorkflow ==
    /\ IdleGathering
    /\ IdleFit
    /\ IdleCompare
    /\ IdleBlock
    /\ IdlePreprocess
    /\ IdleLinker
    /\ files = [path \in AllPaths |-> Absent]
    /\ written_by = [path \in AllPaths |-> NoInvocation]
    /\ wf_call = [fn |-> "none"]
    /\ wf_result = [exc |-> "not called"]
    /\ accessed = {}
    /\ consumed = {}
    /\ first_tables = [key \in Goals2 \X Catalogs |-> NoTables]
    /\ calls = 0

\* the latest call was call, and o is what it did
Did(call, o) ==
    /\ calls < MaxCalls
    /\ calls' = calls + 1
    /\ wf_call' = call
    /\ files' = o.files
    /\ wf_result' = [exc |-> o.exc, value |-> o.value]
    /\ accessed' = o.accessed
    /\ consumed' = o.consumed
    /\ written_by' = [path \in AllPaths |->
                         IF path \in o.written THEN Invocation(call)
                         ELSE written_by[path]]
    /\ UNCHANGED besides_workflow

BuildWikidata ==
    \E g \in Goals, c \in Catalogs, e \in Entities :
       \E o \in build_wikidata(files, g, c, e) :
          /\ Did([fn |-> "build_wikidata", goal |-> g, catalog |-> c, entity |-> e], o)
          /\ UNCHANGED first_tables

BuildTarget ==
    \E g \in Goals, c \in Catalogs, e \in Entities, q \in QidsAndTidsArguments :
       \E o \in build_target(files, g, c, e, q) :
          /\ Did([fn |-> "build_target", goal |-> g, catalog |-> c, entity |-> e,
                  qids_and_tids |-> q], o)
          /\ UNCHANGED first_tables

TrainTestBuild ==
    \E c \in Catalogs, e \in Entities :
       \E o \in train_test_build(files, c, e) :
          /\ Did([fn |-> "train_test_build", goal |-> "training", catalog |-> c,
                  entity |-> e], o)
          /\ UNCHANGED first_tables

Preprocess ==
    \E g \in Goals, c \in Catalogs, w \in WikidataDatasets, t \in CatalogDatasets :
       \E o \in preprocess(files, g, c, w, t) :
          /\ Did([fn |-> "preprocess", goal |-> g, catalog |-> c, entity |-> "none",
                  wikidata_reader |-> w, target_reader |-> t], o)
          /\ first_tables' =
                IF o.exc # "none" THEN first_tables
                ELSE [first_tables EXCEPT ![<<g, c>>] =
                         IF @.n = 0 THEN [n |-> 1, tables |-> o.value]
                         ELSE [n |-> @.n + 1, tables |-> @.tables]]

Execute ==
    \E k \in ExecuteClassifiers, c \in Catalogs, e \in Entities :
       \E o \in execute(files, k, c, e, Rat(1, 10)) :
          /\ Did([fn |-> "execute", goal |-> "training", catalog |-> c, entity |-> e,
                  classifier |-> k], o)
          /\ UNCHANGED first_tables

\* somebody deletes a file of the I/O directory
DeleteFile ==
    \E path \in AllPaths :
       /\ os_path_exists(files, path)
       /\ Did([fn |-> "delete", goal |-> "none", catalog |-> path[2], entity |-> "none"],
              Outcome([files EXCEPT ![path] = Absent], "none", <<>>, {path}, {}, {}))
       /\ first_tables' = [key \in Goals2 \X Catalogs |->
                              IF key[2] = path[2] /\ path[1] \in DataFrameConstants
                              THEN NoTables ELSE first_tables[key]]

NextWorkflow ==
    \/ BuildWikidata
    \/ BuildTarget
    \/ TrainTestBuild
    \/ Preprocess
    \/ Execute
    \/ DeleteFile

SpecWorkflow == InitWorkflow /\ [][NextWorkflow]_vars

-----------------------------------------------------------------------------
(* Properties of the workflow *)

\* C11: build_wikidata, build_target and preprocess raise ValueError for every
\* goal other than 'training' and 'classification', and by then have tested,
\* read, created or written no file and iterated no reader.
C11_UnknownGoalRaisesFirst ==
    [][(/\ wf_call'.fn \in {"build_wikidata", "build_target", "preprocess"}
        /\ calls' = calls + 1
        /\ wf_call'.goal \notin {"training", "classification"})
       => /\ wf_result'.exc = "ValueError"
          /\ files' = files
          /\ accessed' = {}
          /\ consumed' = {}]_vars

\* C11: preprocess was called with an unknown goal when a cache file existed
C11_Witness ==
    /\ wf_call.fn = "preprocess"
    /\ wf_call.goal = "linking"
    /\ wf_result.exc = "ValueError"
    /\ \E path \in AllPaths : os_path_exists(files, path)

\* the successful preprocess calls so far for the goal and catalog of the latest
PreprocessCalls == first_tables[<<wf_call.goal, wf_call.catalog>>]

\* C14: after one successful preprocess call for a goal and catalog, every
\* later preprocess call with that goal and catalog returns both tables of the
\* first call and iterates neither reader, whatever the readers hold, until
\* the cache files are deleted.
C14_CachedTablesReturned ==
    (wf_call.fn = "preprocess" /\ wf_call.goal \in Goals2 /\ PreprocessCalls.n >= 1)
       => /\ wf_result.exc = "none"
          /\ wf_result.value = PreprocessCalls.tables
          /\ PreprocessCalls.n >= 2 => consumed = {}

\* C14: a second preprocess call on readers that hold nothing, which would
\* raise without the cache, returned the tables of the first
C14_Witness ==
    /\ wf_call.fn = "preprocess"
    /\ wf_call.goal \in Goals2
    /\ PreprocessCalls.n = 2
    /\ wf_call.wikidata_reader = <<>>
    /\ wf_call.target_reader = <<>>
    /\ wf_result.exc = "none"
    /\ wf_result.value = PreprocessCalls.tables
    /\ Len(wf_result.value[1]) > 0

BuildCalls == {"build_wikidata", "build_target", "train_test_build", "execute"}

\* C15: artifact paths are keyed by (catalog, entity type, goal): a build
\* touches no file that an invocation with another catalog, entity type or
\* goal wrote.
C15_PathsKeyedByFullTuple ==
    wf_call.fn \in BuildCalls =>
        \A path \in accessed :
           written_by[path] \in {NoInvocation, Invocation(wf_call)}

\* C16: when the catalog query of a training set build matches zero rows, the
\* build returns to its caller: it raises nothing and does not terminate the
\* process.
C16_ZeroRowsReturned ==
    [][(/\ wf_call'.fn \in {"build_target", "train_test_build"}
        /\ calls' = calls + 1
        /\ wf_call'.goal = "training"
        /\ \E c \in Catalogs :
              /\ files[Path("TARGET_TRAINING_SET", c)] = Absent
              /\ files'[Path("TARGET_TRAINING_SET", c)] = JsonLines(<<>>))
       => wf_result'.exc = "none"]_vars

\* the latest call was a build that did not complete successfully: it raised,
\* or its data source gave zero rows
BuildFailed ==
    /\ wf_call'.fn \in {"build_wikidata", "build_target"}
    /\ calls' = calls + 1
    /\ \/ wf_result'.exc # "none"
       \/ \E path \in accessed' : files[path] = Absent /\ files'[path] = JsonLines(<<>>)

\* C23: if build_target or build_wikidata does not complete successfully (zero
\* rows from the data source, or gathering raises), no file exists at its
\* output path afterwards.
C23_NoFileAfterFailedBuild ==
    [][BuildFailed => \A path \in accessed' : files'[path] = Absent]_vars

\* C28: build_target with goal 'classification' and a non-empty qids_and_tids
\* raises ValueError on every call, whether or not the target classification
\* set exists, and creates no file.
C28_ClassificationRejectsQidsAndTids ==
    [][(/\ wf_call'.fn = "build_target"
        /\ calls' = calls + 1
        /\ wf_call'.goal = "classification"
        /\ wf_call'.qids_and_tids.t = "dict"
        /\ wf_call'.qids_and_tids.v # {})
       => /\ wf_result'.exc = "ValueError"
          /\ files' = files]_vars

\* the steps of the training, in their order
TrainingSteps ==
    <<"train_test_build", "preprocess", "train_test_block", "extract_features", "_train">>

\* C18: train.execute runs to completion through train_test_build, preprocess,
\* train_test_block, extract_features and the fit, in this order, and returns
\* the fitted model.
C18_ExecuteRunsEveryStep ==
    wf_call.fn = "execute" =>
        /\ wf_result.exc = "none"
        /\ wf_result.value.steps = TrainingSteps
        /\ wf_result.value.model.fitted

-----------------------------------------------------------------------------
(* Properties of the preprocessing *)

PulledOut == called = "_pull_out_from_single_value_list" /\ step = "done"

\* C9: _pull_out_from_single_value_list returns a frame of the same rows in
\* which every cell that was a list of exactly one element is that element,
\* and every other cell (a list of zero or of two or more elements, a scalar,
\* a null) is what it was.
C9_PullOutExactlySingletons ==
    PulledOut =>
        /\ preprocessed.exc = "none"
        /\ DOMAIN preprocessed.df = DOMAIN target_frame
        /\ \A i \in DOMAIN target_frame :
              LET before == target_frame[i].name
                  after == preprocessed.df[i].name
              IN /\ preprocessed.df[i].index = target_frame[i].index
                 /\ (before.t = "list" /\ Len(before.v) = 1) => after = before.v[1]
                 /\ ~(before.t = "list" /\ Len(before.v) = 1) => after = before

\* C9: a frame with a one-element list and a two-element list went through
C9_Witness ==
    /\ PulledOut
    /\ \E i, j \in DOMAIN target_frame :
          /\ target_frame[i].name = List(<<Str(<<"a">>)>>)
          /\ preprocessed.df[i].name = Str(<<"a">>)
          /\ target_frame[j].name.t = "list" /\ Len(target_frame[j].name.v) = 2
          /\ preprocessed.df[j].name = target_frame[j].name

InputTIDs == {target_reader[i].tid : i \in DOMAIN target_reader}

\* the period a recorded date stands for at its recorded precision
RecordedPeriod(date, precision) ==
    pd_Period(Slice(date.v, CASE precision.v[1] <= YEAR -> 4
                              [] precision.v[1] = MONTH -> 7
                              [] precision.v[1] = DAY -> 10
                              [] precision.v[1] = HOUR -> 13
                              [] precision.v[1] = MINUTE -> 16
                              [] OTHER -> Len(date.v)))

\* the values the input records for an identifier in a column
Recorded(t, column) ==
    LET rows == {i \in DOMAIN target_reader : target_reader[i].tid = t}
        dated(date, precision) ==
            {RecordedPeriod(target_reader[i][date], target_reader[i][precision]) :
                i \in {r \in rows : /\ target_reader[r][date] # None
                                    /\ target_reader[r][precision] # None}}
    IN CASE column = "date_of_birth" -> dated("date_of_birth", "birth_precision")
         [] column = "date_of_death" -> dated("date_of_death", "death_precision")
         [] OTHER -> {target_reader[i][column] : i \in rows} \ {None}

\* how many times a cell holds a value
Occurrences(cell, value) ==
    IF cell.t = "list" THEN Count(value, cell.v)
    ELSE IF cell = value THEN 1 ELSE 0

OneRowPerTID(df) ==
    /\ Len(df) = Cardinality(InputTIDs)
    /\ {df[i].index : i \in DOMAIN df} = InputTIDs

\* C10: the table _preprocess_target returns has exactly one row per distinct
\* target identifier of the input, and before the singleton collapse each
\* column of that row holds every distinct value the input records for the
\* identifier exactly once: none lost, none duplicated.
C10_OneRowEveryValueOnce ==
    /\ (called = "_preprocess_target" /\ step = "done" /\ preprocessed.exc = "none")
          => OneRowPerTID(preprocessed.df)
    /\ (called = "_preprocess_target" /\ step = "pull out") =>
          /\ OneRowPerTID(target_frame)
          /\ \A i \in DOMAIN target_frame :
                \A column \in {"name", "description", "date_of_birth", "date_of_death"} :
                   \A value \in Recorded(target_frame[i].index, column) :
                      Occurrences(target_frame[i][column], value) = 1

\* the Date Values a cell holds
DateValues(cell) ==
    IF cell.t = "list" THEN Range(cell.v)
    ELSE IF cell.t = "period" THEN {cell}
    ELSE {}

\* C21: every Date Value of the table _preprocess_target returns is built from
\* the date and the precision of one input row of that identifier, and the
\* table has no birth precision or death precision column.
C21_DateWithItsOwnPrecision ==
    (called = "_preprocess_target" /\ step = "done" /\ preprocessed.exc = "none")
       => \A i \in DOMAIN preprocessed.df :
             LET row == preprocessed.df[i]
             IN /\ {"birth_precision", "death_precision"} \cap DOMAIN row = {}
                /\ \A column \in {"date_of_birth", "date_of_death"} :
                      DateValues(row[column]) \subseteq Recorded(row.index, column)

\* C21: an identifier with two rows, a date of birth to the day and another to
\* the year, came out with both Date Values
C21_Witness ==
    /\ called = "_preprocess_target"
    /\ step = "done"
    /\ preprocessed.exc = "none"
    /\ \E i \in DOMAIN preprocessed.df :
          /\ DateValues(preprocessed.df[i].date_of_birth)
                = {pd_Period(Slice(Timestamp1, 10)), pd_Period(Slice(Timestamp2, 4))}
          /\ DateValues(preprocessed.df[i].date_of_death) # {}

\* the entry has a date and a precision, and the precision is coarser than
\* year or is not one of the recognized levels
FallsBackToYear(entry) ==
    /\ ~IsNa(entry.v[1])
    /\ ~IsNa(entry.v[2])
    /\ \/ entry.v[2].v[1] < YEAR
       \/ entry.v[2].v[1] \notin DATE_PRECISION

\* the date of the entry truncated to its year
YearOf(entry) == [t |-> "period", v |-> <<Number(SubSeq(entry.v[1].v, 1, 4))>>]

\* C20: for every (date, precision) entry with non-null date and precision
\* whose precision is coarser than year or is not a recognized level,
\* _parse_dates_list emits exactly one value, the year of the date: on a list
\* of such entries it returns their years, one per entry and in order.
C20_FallBackToYear ==
    (/\ called = "_parse_dates_list"
     /\ step = "done"
     /\ target_frame.v # <<>>
     /\ \A i \in DOMAIN target_frame.v : FallsBackToYear(target_frame.v[i]))
       => preprocessed = Returned(List([i \in DOMAIN target_frame.v |->
                                           YearOf(target_frame.v[i])]))

-----------------------------------------------------------------------------
(* The calls of feature extraction and training *)

LinkNames == {<<"A", " ", "b">>, <<"!">>}

\* a Wikidata entity with one target identifier and one name
WikidataEntity(q, t, n, d) ==
    [qid |-> Str(<<q>>), tid |-> List(<<Str(<<t>>)>>), name |-> List(<<Str(n)>>),
     description |-> d, url |-> None, date_of_birth |-> None, date_of_death |-> None]

\* a catalog record
CatalogRecord(t, n, d) ==
    [tid |-> Str(<<t>>), name |-> Str(n), name_tokens |-> NameTokens(Str(n)),
     url |-> None, description |-> d,
     date_of_birth |-> None, birth_precision |-> None,
     date_of_death |-> None, death_precision |-> None]

\* a Wikidata entity linked to both target identifiers
WikidataEntityOfTwo(q, n) ==
    [qid |-> Str(<<q>>), tid |-> List(<<Str(<<"t1">>), Str(<<"t2">>)>>),
     name |-> List(<<Str(n)>>), description |-> None, url |-> None,
     date_of_birth |-> None, date_of_death |-> None]

WikidataDescriptions == {None, List(<<Str(<<"x">>)>>)}

CatalogDescriptions == {None, Str(<<"x">>)}

LinkWikidataReaders ==
    {<<>>}
      \cup {<<WikidataEntity("Q1", t, n, d)>> :
               t \in TIDs, n \in LinkNames, d \in WikidataDescriptions}
      \cup {<<WikidataEntity("Q1", t, n, d), WikidataEntity("Q2", "t2", m, e)>> :
               t \in TIDs, n \in LinkNames, d \in WikidataDescriptions,
               m \in LinkNames, e \in WikidataDescriptions}
      \cup {<<WikidataEntityOfTwo("Q1", n)>> : n \in LinkNames}
      \cup {<<WikidataEntity("Q2", "t1", n, None), WikidataEntityOfTwo("Q1", n)>> :
               n \in LinkNames}

LinkTargetReaders ==
    {<<>>}
      \cup {<<CatalogRecord("t1", n, d)>> : n \in LinkNames, d \in CatalogDescriptions}
      \cup {<<CatalogRecord("t1", n, d), CatalogRecord(t, m, e)>> :
               n \in LinkNames, d \in CatalogDescriptions, t \in TIDs,
               m \in LinkNames, e \in CatalogDescriptions}

\* every pair of a row of the one table and a row of the other
AllPairs(wikidata, target) ==
    Flatten([i \in DOMAIN wikidata |->
                [j \in DOMAIN target |-> <<wikidata[i].index, target[j].index>>]])

BinarizeValues == {Rat(1, 10), Rat(1, 2)}

\* the classifiers asked of _train
TrainedClassifiers == {"NaiveBayesClassifier", "SVMClassifier", "RandomForestClassifier"}

NotYet == [exc |-> "not called"]

InitLinker ==
    /\ IdleGathering
    /\ IdleFit
    /\ IdleCompare
    /\ IdleBlock
    /\ IdlePreprocess
    /\ IdleWorkflow
    /\ lk_result = NotYet
    /\ \/ \E c \in ClassifierKinds, b \in BinarizeValues :
             lk_call = [fn |-> "init_model", classifier |-> c, binarize |-> b]
       \/ \E w \in LinkWikidataReaders, t \in LinkTargetReaders :
             lk_call = [fn |-> "train_test_block", wikidata_reader |-> w,
                        target_reader |-> t]
       \/ \E w \in LinkWikidataReaders \ {<<>>}, t \in LinkTargetReaders \ {<<>>} :
             \E wd \in PreprocessedWikidata("training", w),
                td \in PreprocessedTargets("training", t) :
                \E pairs \in {train_test_block(Keyed(wd), Keyed(td))} :
                   \E feature_vectors \in {extract_features(pairs, wd, td)} :
                      /\ feature_vectors.exc = "none"
                      /\ \E c \in TrainedClassifiers :
                            lk_call = [fn |-> "_train", classifier |-> c,
                                       binarize |-> Rat(1, 10),
                                       feature_vectors |-> feature_vectors.value,
                                       pairs |-> pairs, wikidata |-> wd, target |-> td]
       \/ \E w \in LinkWikidataReaders, t \in LinkTargetReaders :
             lk_call = [fn |-> "link", wikidata_reader |-> w, target_reader |-> t]
       \/ \E w \in LinkWikidataReaders \ {<<>>}, t \in LinkTargetReaders \ {<<>>} :
             \E wd \in PreprocessedWikidata("training", w),
                td \in PreprocessedTargets("training", t) :
                \E pairs \in {<<>>, train_test_block(Keyed(wd), Keyed(td)),
                              AllPairs(wd, td)} :
                   lk_call = [fn |-> "extract_features", pairs |-> pairs,
                              wikidata |-> wd, target |-> td]

InitModel ==
    /\ lk_call.fn = "init_model"
    /\ lk_result = NotYet
    /\ lk_result' = init_model(lk_call.classifier, lk_call.binarize)
    /\ UNCHANGED <<lk_call, besides_linker>>

Train ==
    /\ lk_call.fn = "_train"
    /\ lk_result = NotYet
    /\ lk_result' = _train(lk_call.classifier, lk_call.feature_vectors, lk_call.pairs,
                            lk_call.binarize)
    /\ UNCHANGED <<lk_call, besides_linker>>

ExtractFeatures ==
    /\ lk_call.fn = "extract_features"
    /\ lk_result = NotYet
    /\ lk_result' = extract_features(lk_call.pairs, lk_call.wikidata, lk_call.target)
    /\ UNCHANGED <<lk_call, besides_linker>>

\* preprocessing of both sides for training, then train_test_block
Block ==
    /\ lk_call.fn = "train_test_block"
    /\ lk_result = NotYet
    /\ LET wd_tables == PreprocessedWikidata("training", lk_call.wikidata_reader)
           target_tables == PreprocessedTargets("training", lk_call.target_reader)
       IN IF wd_tables = {} \/ target_tables = {}
          THEN lk_result' = Threw("ValueError")
          ELSE \E wd \in wd_tables, td \in target_tables :
                  lk_result' = Gave(train_test_block(Keyed(wd), Keyed(td)))
    /\ UNCHANGED <<lk_call, besides_linker>>

\* preprocess, train_test_block and extract_features in a row
Link ==
    /\ lk_call.fn = "link"
    /\ lk_result = NotYet
    /\ lk_result' \in LinkedFeatures(lk_call.wikidata_reader, lk_call.target_reader)
    /\ UNCHANGED <<lk_call, besides_linker>>

NextLinker ==
    \/ Block
    \/ InitModel
    \/ Train
    \/ ExtractFeatures
    \/ Link

SpecLinker == InitLinker /\ [][NextLinker]_vars

-----------------------------------------------------------------------------
(* Properties of feature extraction and training *)

\* C12: init_model raises NotImplementedError for every classifier kind other
\* than naive Bayes, and for naive Bayes returns a model built with the given
\* binarize value; for the other kinds it returns no model and fails with no
\* other error.
C12_InitModelWiredOrNotImplemented ==
    (lk_call.fn = "init_model" /\ lk_result # NotYet) =>
        IF lk_call.classifier = "NaiveBayesClassifier"
        THEN /\ lk_result.exc = "none"
             /\ lk_result.value.class = "NaiveBayesClassifier"
             /\ lk_result.value.binarize = lk_call.binarize
        ELSE lk_result.exc = "NotImplementedError"

\* C17: extract_features raises nothing and returns a table of the columns
\* url_exact, name_levenshtein, description_cosine, in that order, with one row
\* per candidate pair: zero rows for zero pairs, n rows for n pairs.
C17_FeatureTableShape ==
    (lk_call.fn = "extract_features" /\ lk_result # NotYet) =>
        /\ lk_result.exc = "none"
        /\ lk_result.value.columns = <<"url_exact", "name_levenshtein", "description_cosine">>
        /\ Len(lk_result.value.rows) = Len(lk_call.pairs)

\* C24: in the training workflow, for every Wikidata entity and every one of
\* its target identifiers whose record is in the target table,
\* train_test_block outputs the pair (QID, identifier), also when the entity
\* is linked to more than one target identifier.
C24_EveryKnownLinkBlocked ==
    (lk_call.fn = "train_test_block" /\ lk_result # NotYet /\ lk_result.exc = "none") =>
        \A i \in DOMAIN lk_call.wikidata_reader, j \in DOMAIN lk_call.target_reader :
           LET w == lk_call.wikidata_reader[i]
               c == lk_call.target_reader[j]
           IN c.tid \in Range(w.tid.v) => <<w.qid, c.tid>> \in Range(lk_result.value)

\* C30: every candidate pair train_test_block produces in training is a known
\* link (the target ID of the Wikidata row is the ID of the target row), and
\* _train hands the whole set of candidate pairs to fit as the matches: every
\* feature vector is labelled a match and none a non-match.
C30_EveryPairLabelledMatch ==
    (lk_call.fn = "_train" /\ lk_result # NotYet /\ lk_result.exc = "none") =>
        /\ \A k \in DOMAIN lk_call.pairs :
              /\ Loc(lk_call.wikidata, lk_call.pairs[k][1]).tid = lk_call.pairs[k][2]
              /\ Loc(lk_call.target, lk_call.pairs[k][2]).tid = lk_call.pairs[k][2]
        /\ lk_result.value.comparison_vectors.index = lk_call.pairs
        /\ lk_result.value.match_index = lk_result.value.comparison_vectors.index

\* C30: a naive Bayes model was fitted on the feature vectors of two pairs
C30_Witness ==
    /\ lk_call.fn = "_train"
    /\ lk_result # NotYet
    /\ lk_result.exc = "none"
    /\ lk_result.value.fitted
    /\ Len(lk_call.pairs) = 2
    /\ lk_result.value.match_index = lk_call.pairs
    /\ Len(lk_call.wikidata) = 2
    /\ Len(lk_call.target) = 2

\* the Wikidata entity w and the catalog record c are linked through the
\* blocking key and each holds the same single name
LinkedSameName(w, c) ==
    /\ w.tid = List(<<c.tid>>)
    /\ w.name = List(<<c.name>>)
    /\ \A k \in DOMAIN lk_call.target_reader :
          lk_call.target_reader[k].tid = c.tid => lk_call.target_reader[k].name = c.name

\* the features of the pair (w, c) hold name_levenshtein = 1.0
ScoresOne(w, c) ==
    /\ lk_result.exc = "none"
    /\ \E k \in DOMAIN lk_result.value.index :
          /\ lk_result.value.index[k] = <<w.qid, c.tid>>
          /\ lk_result.value.rows[k][2] = Rat(1, 1)

\* C19, amended: when a Wikidata entity and a catalog record are linked through
\* the blocking key and each holds the same single name, and that name has at
\* least one token, the pipeline gives the pair name_levenshtein = 1.0.
C19_SameTokenizedNameScoresOne ==
    (lk_call.fn = "link" /\ lk_result # NotYet) =>
        \A i \in DOMAIN lk_call.wikidata_reader, j \in DOMAIN lk_call.target_reader :
           LET w == lk_call.wikidata_reader[i]
               c == lk_call.target_reader[j]
           IN (LinkedSameName(w, c) /\ tokenize(c.name) # <<>>) => ScoresOne(w, c)

\* C19: two linked pairs went through the pipeline, one of them with the same
\* tokenized name on both sides and scored 1.0
C19_Witness ==
    /\ lk_call.fn = "link"
    /\ lk_result # NotYet
    /\ lk_result.exc = "none"
    /\ Len(lk_result.value.index) = Len(lk_call.wikidata_reader)
    /\ Len(lk_call.wikidata_reader) > 1
    /\ \E i \in DOMAIN lk_call.wikidata_reader, j \in DOMAIN lk_call.target_reader :
          /\ LinkedSameName(lk_call.wikidata_reader[i], lk_call.target_reader[j])
          /\ tokenize(lk_call.target_reader[j].name) # <<>>
          /\ ScoresOne(lk_call.wikidata_reader[i], lk_call.target_reader[j])
    /\ \E k \in DOMAIN lk_result.value.rows : lk_result.value.rows[k][2] # Rat(1, 1)

\* C19: when a Wikidata entity and a catalog record are linked through the
\* blocking key and each holds the same single name, preprocessing, blocking
\* and feature extraction give the pair name_levenshtein = 1.0.
C19_SameNameScoresOne ==
    (lk_call.fn = "link" /\ lk_result # NotYet) =>
        \A i \in DOMAIN lk_call.wikidata_reader, j \in DOMAIN lk_call.target_reader :
           LET w == lk_call.wikidata_reader[i]
               c == lk_call.target_reader[j]
           IN LinkedSameName(w, c) => ScoresOne(w, c)

-----------------------------------------------------------------------------
(* Fitting a neural network: _BaseNN._fit (soweego/linker/neural_networks.py) *)
(* with the Keras callbacks it installs.  A validation loss is an integer,  *)
(* NanLoss stands for the float NaN and Infinity for np.Inf.                 *)

\* most epochs asked of one fit
MaxEpochs == 103

\* EarlyStopping(patience=100)
patience == 100

NanLoss == 0

Infinity == 4

Losses == 1..(Infinity - 1)

\* np.less that also holds for equal losses
np_less_or_equal(a, b) == a # NanLoss /\ b # NanLoss /\ a <= b

\* np.less, the monitor_op of both callbacks for 'val_loss': false for NaN
np_less(a, b) == a # NanLoss /\ b # NanLoss /\ a < b

\* EarlyStopping.on_train_begin
EarlyStopping_on_train_begin == [best |-> Infinity, wait |-> 0, stop_training |-> FALSE]

\* EarlyStopping.on_epoch_end with min_delta = 0
EarlyStopping_on_epoch_end(self, current) ==
    IF np_less(current, self.best)
    THEN [best |-> current, wait |-> 0, stop_training |-> FALSE]
    ELSE [best |-> self.best, wait |-> self.wait + 1,
          stop_training |-> self.wait + 1 >= patience]

\* ModelCheckpoint(model_path, save_best_only=True): a new callback object
ModelCheckpoint_init == [best |-> Infinity]

\* ModelCheckpoint.on_epoch_end: whether it saves, and its best afterwards
ModelCheckpoint_on_epoch_end(self, current) ==
    IF np_less(current, self.best) THEN [save |-> TRUE, best |-> current]
    ELSE [save |-> FALSE, best |-> self.best]

NoCheckpoint == [fit |-> "none", epoch |-> 0, loss |-> NanLoss]

\* the file of an earlier fit of the same class
EarlierCheckpoint == [fit |-> "earlier", epoch |-> 1, loss |-> 1]

FitEpochs == {1, 2, MaxEpochs}

InitFit ==
    /\ IdleGathering
    /\ IdleCompare
    /\ IdleBlock
    /\ IdlePreprocess
    /\ IdleWorkflow
    /\ IdleLinker
    /\ nn_pc = "idle"
    /\ epochs \in FitEpochs
    /\ epoch = 0
    /\ val_loss = NanLoss
    /\ early_stopping = <<>>
    /\ model_checkpoint = <<>>
    /\ checkpoint \in {NoCheckpoint, EarlierCheckpoint}
    /\ file_ops = {}
    /\ lowest = Infinity
    /\ unimproved = 0

\* _fit up to the call of kernel.fit: the paths, the folders, the callbacks
Fit ==
    /\ nn_pc = "idle"
    /\ nn_pc' = "fitting"
    /\ early_stopping' = EarlyStopping_on_train_begin
    /\ model_checkpoint' = ModelCheckpoint_init
    /\ file_ops' = {}
    /\ UNCHANGED <<epochs, epoch, val_loss, checkpoint, lowest, unimproved, besides_fit>>

\* one epoch of kernel.fit and the callbacks at its end; after the last one
\* kernel.fit returns and _fit logs history.params
Epoch ==
    /\ nn_pc = "fitting"
    /\ \E current \in Losses \cup {NanLoss} :
          LET saved == ModelCheckpoint_on_epoch_end(model_checkpoint, current)
          IN /\ val_loss' = current
             /\ epoch' = epoch + 1
             /\ early_stopping' = EarlyStopping_on_epoch_end(early_stopping, current)
             /\ model_checkpoint' = [best |-> saved.best]
             /\ checkpoint' = IF saved.save
                               THEN [fit |-> "this", epoch |-> epoch + 1, loss |-> current]
                               ELSE checkpoint
             /\ file_ops' = IF saved.save THEN {"write"} ELSE {}
             /\ lowest' = IF current # NanLoss /\ current < lowest THEN current
                           ELSE lowest
             /\ unimproved' = IF current # NanLoss /\ current < lowest THEN 0
                               ELSE unimproved + 1
    /\ nn_pc' = IF early_stopping'.stop_training \/ epoch' >= epochs THEN "ended"
                 ELSE "fitting"
    /\ UNCHANGED <<epochs, besides_fit>>

NextFit ==
    \/ Fit
    \/ Epoch

SpecFit == InitFit /\ [][NextFit]_vars

\* C22: during _fit the checkpoint file is written only at epochs whose
\* validation loss is the lowest so far, so after every epoch it holds the
\* model of the best epoch so far; fitting ends after at most `epochs` epochs,
\* and early as soon as 100 epochs in a row brought no improvement; the
\* checkpoint is not read before fitting has ended.
C22_CheckpointHoldsBest ==
    nn_pc \in {"fitting", "ended"} =>
        /\ "write" \in file_ops => val_loss = lowest
        /\ lowest # Infinity => /\ checkpoint.fit = "this"
                                /\ checkpoint.loss = lowest
                                /\ checkpoint.epoch = epoch - unimproved
        /\ epoch <= epochs
        /\ nn_pc = "ended" <=> (epoch = epochs \/ unimproved >= patience)
        /\ unimproved <= patience
        /\ "read" \notin file_ops

\* C22: a fit that ended early, 100 epochs after its best epoch, on a file
\* that an earlier fit had left
C22_Witness ==
    /\ nn_pc = "ended"
    /\ epoch < epochs
    /\ unimproved = patience
    /\ checkpoint = [fit |-> "this", epoch |-> epoch - patience, loss |-> lowest]
    /\ checkpoint.epoch > 1
    /\ val_loss = lowest

-----------------------------------------------------------------------------
(* Database sessions of soweego/commons/data_gathering.py.  session_log      *)
(* lists what is done with the session: "connect", "count", "fetch" (a row  *)
(* is read from the query), "commit", "rollback", "close".                  *)

GatheringFunctions ==
    {"gather_target_metadata", "tokens_fulltext_search", "name_fulltext_search",
     "perfect_name_search", "gather_target_dataset", "gather_target_links"}

\* the functions that count the rows first, through _run_query or on their own
Counting ==
    {"gather_target_metadata", "tokens_fulltext_search", "gather_target_dataset",
     "gather_target_links"}

\* the functions that read every row at once, with Query.all()
ReadingAll == {"name_fulltext_search", "perfect_name_search", "gather_target_links"}

\* the generator functions that yield inside their try block
YieldingInTry == {"tokens_fulltext_search", "name_fulltext_search", "perfect_name_search"}

\* the functions that commit when all went well
Committing == GatheringFunctions \ {"perfect_name_search"}

InitGathering ==
    /\ IdleCompare
    /\ IdleBlock
    /\ IdlePreprocess
    /\ IdleWorkflow
    /\ IdleLinker
    /\ IdleFit
    /\ db_fn \in GatheringFunctions
    /\ db_pc = "start"
    /\ db_rows \in 0..MaxRows
    /\ fetched = 0
    /\ delivered = 0
    /\ session_log = <<>>
    /\ db_exc = "none"

\* except: session.rollback(); raise, and then finally: session.close()
Except(exc) ==
    /\ session_log' = session_log \o <<"rollback", "close">>
    /\ db_exc' = exc
    /\ db_pc' = "raised"
    /\ UNCHANGED <<db_fn, db_rows, fetched, delivered>>

\* a return inside the try block: only finally: session.close() runs
ReturnInTry ==
    /\ session_log' = session_log \o <<"close">>
    /\ db_pc' = "returned"
    /\ UNCHANGED <<db_fn, db_rows, fetched, delivered, db_exc>>

\* session = DBManager.connect_to_db()
Connect ==
    /\ db_pc = "start"
    /\ session_log' = <<"connect">>
    /\ db_pc' = "try"
    /\ UNCHANGED <<db_fn, db_rows, fetched, delivered, db_exc, besides_gathering>>

\* query.count(), in _run_query or in the function itself, and what is done
\* when it is zero
RunQuery ==
    /\ db_pc = "try"
    /\ db_fn \in Counting
    /\ \/ Except("Error")
       \/ /\ db_rows = 0
          /\ db_fn \in {"gather_target_metadata", "gather_target_links"}
          /\ ReturnInTry
       \/ /\ db_rows = 0
          /\ db_fn = "gather_target_dataset"
          /\ Except("SystemExit")
       \/ /\ db_rows = 0
          /\ db_fn = "tokens_fulltext_search"
          /\ session_log' = session_log \o <<"count">>
          /\ db_pc' = "commit"
          /\ UNCHANGED <<db_fn, db_rows, fetched, delivered, db_exc>>
       \/ /\ db_rows > 0
          /\ session_log' = session_log \o <<"count">>
          /\ db_pc' = IF db_fn = "gather_target_metadata" THEN "commit" ELSE "rows"
          /\ UNCHANGED <<db_fn, db_rows, fetched, delivered, db_exc>>
    /\ UNCHANGED besides_gathering

\* query.all(): every row is read inside the try block
FetchAll ==
    /\ db_fn \in ReadingAll
    /\ db_pc = IF db_fn \in Counting THEN "rows" ELSE "try"
    /\ \/ Except("Error")
       \/ /\ session_log' = session_log \o [k \in 1..db_rows |-> "fetch"]
          /\ fetched' = db_rows
          /\ db_pc' = IF db_fn \in YieldingInTry /\ db_rows > 0 THEN "yield"
                       ELSE "commit"
          /\ UNCHANGED <<db_fn, db_rows, delivered, db_exc>>
    /\ UNCHANGED besides_gathering

\* one turn of a loop over the query inside the try block: the next row is read
FetchRow ==
    /\ db_fn \in {"gather_target_dataset", "tokens_fulltext_search"}
    /\ db_pc = "rows"
    /\ \/ Except("Error")
       \/ /\ session_log' = session_log \o <<"fetch">>
          /\ fetched' = fetched + 1
          /\ db_pc' = IF db_fn \in YieldingInTry THEN "yield"
                       ELSE IF fetched + 1 = db_rows THEN "commit" ELSE "rows"
          /\ UNCHANGED <<db_fn, db_rows, delivered, db_exc>>
    /\ UNCHANGED besides_gathering

\* yield inside the try block: the caller takes the row and asks for the next
Yield ==
    /\ db_pc = "yield"
    /\ delivered' = delivered + 1
    /\ db_pc' = IF delivered + 1 = db_rows THEN "commit"
                 ELSE IF db_fn \in ReadingAll THEN "yield" ELSE "rows"
    /\ UNCHANGED <<db_fn, db_rows, fetched, session_log, db_exc, besides_gathering>>

\* the caller drops the generator at a yield: GeneratorExit is raised there,
\* the bare except rolls back and re-raises, and the caller sees no exception
Abandon ==
    /\ db_pc = "yield"
    /\ session_log' = session_log \o <<"rollback", "close">>
    /\ db_pc' = "abandoned"
    /\ UNCHANGED <<db_fn, db_rows, fetched, delivered, db_exc, besides_gathering>>

\* session.commit() where there is one, then finally: session.close()
CommitAndClose ==
    /\ db_pc = "commit"
    /\ \/ /\ db_fn \in Committing
          /\ Except("Error")
       \/ /\ session_log' = session_log \o
                                (IF db_fn \in Committing THEN <<"commit">> ELSE <<>>)
                                \o <<"close">>
          /\ db_pc' = IF db_rows = 0 THEN "returned"
                       ELSE CASE db_fn = "gather_target_metadata" -> "consume"
                              [] db_fn = "gather_target_links" -> "yield after"
                              [] OTHER -> "returned"
          /\ UNCHANGED <<db_fn, db_rows, fetched, delivered, db_exc>>
    /\ UNCHANGED besides_gathering

\* the caller of gather_target_metadata iterates what it was returned: only now
\* does _parse_target_metadata_query_result run and read a row from the query
Consume ==
    /\ db_pc = "consume"
    /\ \/ /\ session_log' = session_log \o <<"fetch">>
          /\ db_exc' = "Error"
          /\ db_pc' = "raised"
          /\ UNCHANGED <<db_fn, db_rows, fetched, delivered>>
       \/ /\ session_log' = session_log \o <<"fetch">>
          /\ fetched' = fetched + 1
          /\ delivered' = delivered + 1
          /\ db_pc' = IF delivered + 1 = db_rows THEN "returned" ELSE "consume"
          /\ UNCHANGED <<db_fn, db_rows, db_exc>>
    /\ UNCHANGED besides_gathering

\* gather_target_links yields the rows it read, after the session was closed
YieldAfter ==
    /\ db_pc = "yield after"
    /\ delivered' = delivered + 1
    /\ db_pc' = IF delivered + 1 = db_rows THEN "returned" ELSE "yield after"
    /\ UNCHANGED <<db_fn, db_rows, fetched, session_log, db_exc, besides_gathering>>

NextGathering ==
    \/ Connect
    \/ RunQuery
    \/ FetchAll
    \/ FetchRow
    \/ Yield
    \/ Abandon
    \/ CommitAndClose
    \/ Consume
    \/ YieldAfter

SpecGathering == InitGathering /\ [][NextGathering]_vars

\* the positions of op in the session log
Positions(op) == {k \in DOMAIN session_log : session_log[k] = op}

\* C25: every session the six functions open is closed exactly once on every
\* path; when an exception occurs the session is rolled back before it is
\* closed and the exception reaches the caller.
C25_SessionClosedOnce ==
    db_pc \in {"returned", "raised", "abandoned"} =>
        /\ Cardinality(Positions("close")) = 1
        /\ db_pc = "raised" =>
              /\ db_exc # "none"
              /\ \E r \in Positions("rollback") : \A c \in Positions("close") : r < c

\* C26: every row gather_target_metadata delivers is read from the query
\* before the session is committed and closed: no row is read after
\* session.close().
C26_RowsReadBeforeClose ==
    db_fn = "gather_target_metadata" =>
        \A f \in Positions("fetch") :
           \A c \in Positions("commit") \cup Positions("close") : f < c

====
